---- MODULE Spec2Model ----
(***************************************************************************)
(* A model of metaknowledge's RecordCollection (recordCollection.py): the  *)
(* record-set algebra and the network builders that fold the records of a  *)
(* collection into a networkx graph.                                       *)
(*                                                                         *)
(* The graphs are networkx 1.x graphs, the API generation the source is    *)
(* written against (grph.node, grph.edge, edges_iter, attr_dict=): a node  *)
(* maps to an attribute dictionary OBJECT, and add_node(n, attr_dict = d)  *)
(* stores d itself for a new node, so two nodes can share one dictionary.  *)
(* The model keeps that: a graph holds a heap of attribute dictionaries.   *)
(***************************************************************************)
EXTENDS Integers, Sequences, FiniteSets, TLC

VARIABLES
    records,   \* the Records of the collection a network builder folds (self._Records)
    todo,      \* the Records `for R in self` has not yielded yet
    grph,      \* the graph under construction
    opt,       \* the keyword arguments of the running builder
    heap,      \* RecordCollection objects: id -> [Records, errors, bad, name]
    sets,      \* Python set objects (the _Records of a collection): address -> set
    dicts,     \* Python dict objects (the errors of a collection): address -> map
    last       \* the last set operation performed, with a snapshot of the state before it

vars == <<records, todo, grph, opt, heap, sets, dicts, last>>

----------------------------------------------------------------------------
(* Bounds of the model *)

\* Records in a folded collection
MaxRecs == 2
\* Set operations and mutations performed on the collections
MaxOps == 2

----------------------------------------------------------------------------
(* Generic helpers *)

EmptyF == [y \in {} |-> 0]

Put(f, k, v) == (k :> v) @@ f

\* Those without a repeated element
NoDup(s) == \A i, j \in 1..Len(s) : i # j => s[i] # s[j]

Range(s) == {s[i] : i \in 1..Len(s)}

\* A fixed enumeration of a finite set (one iteration order among many)
RECURSIVE SeqOf(_)
SeqOf(S) == IF S = {} THEN <<>>
            ELSE LET x == CHOOSE y \in S : TRUE IN <<x>> \o SeqOf(S \ {x})

RecIds == <<"r1", "r2", "r3", "r4">>

----------------------------------------------------------------------------
(* networkx 1.x Graph / DiGraph *)

\* nx.Graph() / nx.DiGraph(): node maps a node id to the address of its
\* attribute dictionary in attr; edge maps an edge key to its data dictionary.
NewGraph(directed) ==
    [directed |-> directed, node |-> EmptyF, attr |-> <<>>, edge |-> EmptyF]

\* An undirected edge is stored once for both directions
EdgeKey(G, u, v) == IF G.directed THEN <<u, v>> ELSE {u, v}

has_node(G, n) == n \in DOMAIN G.node

has_edge(G, u, v) == EdgeKey(G, u, v) \in DOMAIN G.edge

\* A new dictionary object; its address is Len(attr) afterwards
NewDict(G, d) == [G EXCEPT !.attr = Append(@, d)]

\* G.node[n]: the attribute dictionary of n
NodeAttr(G, n) == G.attr[G.node[n]]

\* G.node[n][k] = v
SetNodeAttr(G, n, k, v) == [G EXCEPT !.attr[G.node[n]] = Put(@, k, v)]

\* add_node(n, attr_dict = <the dictionary at address d>): a new node keeps the
\* dictionary object itself; an existing node's dictionary is updated from it
add_node_ref(G, n, d) ==
    IF n \notin DOMAIN G.node
    THEN [G EXCEPT !.node = Put(@, n, d)]
    ELSE [G EXCEPT !.attr[G.node[n]] = G.attr[d] @@ @]

\* add_node(n, **kw) or add_node(n, {..literal..}): a fresh dictionary
add_node(G, n, kw) ==
    IF n \notin DOMAIN G.node
    THEN LET G1 == NewDict(G, kw) IN [G1 EXCEPT !.node = Put(@, n, Len(G1.attr))]
    ELSE [G EXCEPT !.attr[G.node[n]] = kw @@ @]

\* add_edge(u, v, **kw): missing end nodes are created with empty attributes,
\* the edge's data dictionary is created or updated
add_edge(G, u, v, kw) ==
    LET G1 == IF has_node(G, u) THEN G ELSE add_node(G, u, EmptyF)
        G2 == IF has_node(G1, v) THEN G1 ELSE add_node(G1, v, EmptyF)
        key == EdgeKey(G2, u, v)
        old == IF key \in DOMAIN G2.edge THEN G2.edge[key] ELSE EmptyF
    IN [G2 EXCEPT !.edge = Put(@, key, kw @@ old)]

\* grph.edge[u][v]['weight'] += 1 succeeds (no KeyError)
HasWeight(G, u, v) ==
    /\ has_node(G, u)
    /\ has_edge(G, u, v)
    /\ "weight" \in DOMAIN G.edge[EdgeKey(G, u, v)]

IncWeight(G, u, v) ==
    [G EXCEPT !.edge[EdgeKey(G, u, v)] = Put(@, "weight", @.weight + 1)]

\* grph.node[n]['count'] += 1 succeeds (no KeyError)
HasCount(G, n) == has_node(G, n) /\ "count" \in DOMAIN NodeAttr(G, n)

IncCount(G, n) == SetNodeAttr(G, n, "count", NodeAttr(G, n).count + 1)

\* What the claims observe of a graph: nodes, edges, weights and counts
\* (-1: the attribute is absent)
Count(G, n) == IF HasCount(G, n) THEN NodeAttr(G, n).count ELSE -1

Weight(G, e) == IF "weight" \in DOMAIN G.edge[e] THEN G.edge[e].weight ELSE -1

Obs(G) == [nodes  |-> DOMAIN G.node,
           edges  |-> DOMAIN G.edge,
           weight |-> [e \in DOMAIN G.edge |-> Weight(G, e)],
           count  |-> [n \in DOMAIN G.node |-> Count(G, n)]]

----------------------------------------------------------------------------
(* RecordCollection.coAuthNetwork *)

\* attributeMaker(Rec): one dictionary per Record; with detailedInfo the
\* values of the selected tags (here the title) are added
attributeMaker(R, o) ==
    (IF o.detailedInfo THEN [TI |-> R.TI] ELSE EmptyF)
        @@ (IF o.count THEN [count |-> 1] ELSE EmptyF)

\* if auth not in grph: add_node(auth, attr_dict = detailedInfo)
\* elif count: grph.node[auth]['count'] += 1
coAuthNode(G, auth, d, o) ==
    IF ~has_node(G, auth) THEN add_node_ref(G, auth, d)
    ELSE IF o.count THEN IncCount(G, auth)
    ELSE G

coAuthEdge(G, auth1, auth2, o) ==
    IF has_edge(G, auth1, auth2) /\ o.weighted THEN IncWeight(G, auth1, auth2)
    ELSE IF o.weighted THEN add_edge(G, auth1, auth2, [weight |-> 1])
    ELSE add_edge(G, auth1, auth2, EmptyF)

\* for auth2 in authsList[i + 1:]
RECURSIVE coAuthInner(_, _, _, _, _)
coAuthInner(G, auth1, rest, d, o) ==
    IF rest = <<>> THEN G
    ELSE LET auth2 == Head(rest)
             G1 == coAuthNode(G, auth2, d, o)
             G2 == coAuthEdge(G1, auth1, auth2, o)
         IN coAuthInner(G2, auth1, Tail(rest), d, o)

\* for i, auth1 in enumerate(authsList)
RECURSIVE coAuthOuter(_, _, _, _, _)
coAuthOuter(G, authsList, i, d, o) ==
    IF i > Len(authsList) THEN G
    ELSE LET auth1 == authsList[i]
             G1 == coAuthNode(G, auth1, d, o)
             G2 == coAuthInner(G1, auth1, SubSeq(authsList, i + 1, Len(authsList)), d, o)
         IN coAuthOuter(G2, authsList, i + 1, d, o)

\* The body of `for R in self` for one Record
coAuthRecord(G, R, o) ==
    IF o.dropNonJournals /\ ~R.isJournal THEN G
    ELSE IF R.authorsFull = <<>> THEN G
    ELSE LET G1 == NewDict(G, attributeMaker(R, o))
             d == Len(G1.attr)
         IN IF Len(R.authorsFull) > 1
            THEN coAuthOuter(G1, R.authorsFull, 1, d, o)
            ELSE coAuthNode(G1, R.authorsFull[1], d, o)

\* The whole fold over the Records in the order of a sequence
RECURSIVE coAuthNetwork(_, _, _)
coAuthNetwork(G, recSeq, o) ==
    IF recSeq = <<>> THEN G
    ELSE coAuthNetwork(coAuthRecord(G, Head(recSeq), o), Tail(recSeq), o)

\* The author lists a Record may carry (get('authorsFull'); <<>>: none)
AuthorLists ==
    {<<>>, <<"a">>, <<"a", "b">>, <<"b", "a">>, <<"b", "c">>, <<"a", "b", "c">>}

coAuthRec(i, a, j) ==
    [id |-> RecIds[i], authorsFull |-> a, isJournal |-> j, TI |-> RecIds[i]]

\* Collections of k Records with the ids r1..rk
CoAuthCollections ==
    UNION {{{coAuthRec(i, f[i][1], f[i][2]) : i \in 1..k} :
                f \in [1..k -> AuthorLists \X BOOLEAN]} : k \in 0..MaxRecs}

CoAuthOpts ==
    [builder : {"coAuth"}, detailedInfo : BOOLEAN, weighted : BOOLEAN,
     dropNonJournals : BOOLEAN, count : BOOLEAN]

\* No RecordCollection algebra is going on while a network is built
AlgebraIdle ==
    /\ heap = <<>>
    /\ sets = <<>>
    /\ dicts = <<>>
    /\ last = [kind |-> "none", n |-> 0]

InitCoAuth ==
    /\ records \in CoAuthCollections
    /\ todo = records
    /\ opt \in CoAuthOpts
    /\ grph = NewGraph(FALSE)
    /\ AlgebraIdle

\* One iteration of `for R in self`: the set yields its Records in any order
coAuthFold ==
    /\ opt.builder = "coAuth"
    /\ \E R \in todo :
        /\ grph' = coAuthRecord(grph, R, opt)
        /\ todo' = todo \ {R}
    /\ UNCHANGED <<records, opt, heap, sets, dicts, last>>

NextCoAuth == coAuthFold

SpecCoAuth == InitCoAuth /\ [][NextCoAuth]_vars

\* C1: coAuthNetwork is order-independent: folding the Records of a
\* collection in any order gives the same nodes, edges, edge weights and
\* author counts as folding them in one fixed order.
C1_CoAuthOrderIndependent ==
    (opt.builder = "coAuth" /\ todo = {}) =>
        Obs(grph) = Obs(coAuthNetwork(NewGraph(FALSE), SeqOf(records), opt))

----------------------------------------------------------------------------
(* Citations, filterCites, makeID, makeNodeTuple, addToNetwork *)

\* Python's None
None == [none |-> TRUE]

\* A Citation as the builders read it: ID() and the attributes author, year,
\* journal, original ("" is a missing, falsy attribute), isAnonymous(),
\* isJournal(), allButDOI() and str() (a string of characters)
Cite(id, author, year, journal, anon, isJ, text) ==
    [ID |-> id, author |-> author, year |-> year, journal |-> journal,
     original |-> id, isAnonymous |-> anon, isJournal |-> isJ,
     allButDOI |-> id, str |-> text]

\* The Citation objects of the model, by name: two journal articles, a
\* non-journal citation without year and journal by the author of the first,
\* and an anonymous one
Citation ==
    [cX |-> Cite("X", "Smith A", "2001", "NATURE", FALSE, TRUE, <<"s", "x">>),
     cY |-> Cite("Y", "Jones B", "2002", "SCIENCE", FALSE, TRUE, <<"j", "y">>),
     cZ |-> Cite("Z", "Smith A", "", "", FALSE, FALSE, <<"s", "z">>),
     cA |-> Cite("A", "[ANONYMOUS]", "2001", "NATURE", TRUE, TRUE, <<"a", "x">>)]

Cites == DOMAIN Citation

\* str.upper() on the model's alphabet
UpperChar(ch) ==
    CASE ch = "a" -> "A" [] ch = "j" -> "J" [] ch = "s" -> "S"
      [] ch = "x" -> "X" [] ch = "y" -> "Y" [] ch = "z" -> "Z"
      [] OTHER -> ch

Upper(str) == [i \in 1..Len(str) |-> UpperChar(str[i])]

\* k in s, for strings
IsSubstring(k, str) ==
    \E i \in 1..(Len(str) - Len(k) + 1) : SubSeq(str, i, i + Len(k) - 1) = k

\* The keyWords branch of filterCites: found
keyWordFound(c, keyWords) ==
    IF keyWords.kind = "str"
    THEN IsSubstring(Upper(keyWords.v), Upper(Citation[c].str))
    ELSE \E i \in 1..Len(keyWords.v) :
            IsSubstring(Upper(keyWords.v[i]), Upper(Citation[c].str))

\* bool(keyWords)
keyWordsGiven(keyWords) == keyWords # None /\ keyWords.v # <<>>

\* A plausible slip: the keyword test the other way round (a match keeps)
keepCiteOnMatch(c, nodeType, dropAnon, dropNonJournals, keyWords, coreCites) ==
    IF nodeType # "full" /\ Citation[c][nodeType] = "" THEN FALSE
    ELSE IF dropNonJournals /\ ~Citation[c].isJournal THEN FALSE
    ELSE IF dropAnon /\ Citation[c].isAnonymous THEN FALSE
    ELSE IF coreCites # None /\ coreCites.v # {} /\ c \notin coreCites.v THEN FALSE
    ELSE IF keyWordsGiven(keyWords) THEN keyWordFound(c, keyWords)
    ELSE TRUE

\* One citation of filterCites' loop: is it appended to filteredCites?
keepCite(c, nodeType, dropAnon, dropNonJournals, keyWords, coreCites) ==
    IF nodeType # "full" /\ Citation[c][nodeType] = "" THEN FALSE
    ELSE IF dropNonJournals /\ ~Citation[c].isJournal THEN FALSE
    ELSE IF dropAnon /\ Citation[c].isAnonymous THEN FALSE
    ELSE IF coreCites # None /\ coreCites.v # {} /\ c \notin coreCites.v THEN FALSE
    ELSE IF keyWordsGiven(keyWords) THEN ~keyWordFound(c, keyWords)
    ELSE TRUE

RECURSIVE filterCites(_, _, _, _, _, _)
filterCites(cites, nodeType, dropAnon, dropNonJournals, keyWords, coreCites) ==
    IF cites = <<>> THEN <<>>
    ELSE (IF keepCite(Head(cites), nodeType, dropAnon, dropNonJournals, keyWords, coreCites)
          THEN <<Head(cites)>> ELSE <<>>)
         \o filterCites(Tail(cites), nodeType, dropAnon, dropNonJournals, keyWords, coreCites)

makeID(citation, nodeType) ==
    IF nodeType # "full" THEN Citation[citation][nodeType] ELSE Citation[citation].ID

\* The attribute dictionary of a new node (coreValues is empty in the model:
\* detailedCore is not given)
makeNodeTuple(citation, idVal, nodeInfo, fullInfo, nodeType, count) ==
    (IF nodeInfo
     THEN [info |-> CASE nodeType = "full" -> Citation[citation].allButDOI
                      [] nodeType = "journal" ->
                            IF Citation[citation].isJournal
                            THEN Citation[citation].journal ELSE "None"
                      [] nodeType = "original" -> Citation[citation].original
                      [] OTHER -> idVal]
     ELSE EmptyF)
    @@ (IF fullInfo THEN [fullCite |-> Citation[citation].original] ELSE EmptyF)
    @@ (IF count THEN [count |-> 1] ELSE EmptyF)

\* if headNd is not None: ... add the head node when it is new (no count update).
\* A head node is passed as [v |-> citation]
addHead(G, headNd, o) ==
    IF headNd # None
    THEN LET hID == makeID(headNd.v, o.nodeType)
         IN IF ~has_node(G, hID)
            THEN add_node(G, hID, makeNodeTuple(headNd.v, hID, o.nodeInfo, o.fullInfo,
                                                o.nodeType, o.count))
            ELSE G
    ELSE G

\* for n in nds: a new node is added, an old one counted
RECURSIVE addNodes(_, _, _)
addNodes(G, nds, o) ==
    IF nds = <<>> THEN G
    ELSE LET n == Head(nds)
             nID == makeID(n, o.nodeType)
             G1 == IF ~has_node(G, nID)
                   THEN add_node(G, nID, makeNodeTuple(n, nID, o.nodeInfo, o.fullInfo,
                                                       o.nodeType, o.count))
                   ELSE IF o.count THEN IncCount(G, nID)
                   ELSE G
         IN addNodes(G1, Tail(nds), o)

\* A plausible slip: the edge is always (re)added with weight 1
bumpEdgeReset(G, u, v) == add_edge(G, u, v, [weight |-> 1])

\* try: grph[u][v]['weight'] += 1 except KeyError: grph.add_edge(u, v, weight = 1)
bumpEdge(G, u, v) ==
    IF HasWeight(G, u, v) THEN IncWeight(G, u, v)
    ELSE add_edge(G, u, v, [weight |-> 1])

\* The edge steps of addToNetwork as the pairs it visits, in order
headPairs(hID, idList) == [i \in 1..Len(idList) |-> <<hID, idList[i]>>]

RECURSIVE coPairs(_)
coPairs(idList) ==
    IF Len(idList) <= 1 THEN <<>>
    ELSE [i \in 1..(Len(idList) - 1) |-> <<idList[1], idList[i + 1]>>]
         \o coPairs(Tail(idList))

\* Weighted: every pair bumps its edge. Unweighted: the pairs with no edge yet
\* are collected in addedEdges
RECURSIVE edgeLoop(_, _, _, _)
edgeLoop(G, pairs, weighted, addedEdges) ==
    IF pairs = <<>> THEN [G |-> G, addedEdges |-> addedEdges]
    ELSE LET u == Head(pairs)[1]
             v == Head(pairs)[2]
         IN IF weighted
            THEN edgeLoop(bumpEdge(G, u, v), Tail(pairs), weighted, addedEdges)
            ELSE IF ~has_edge(G, u, v)
            THEN edgeLoop(G, Tail(pairs), weighted, Append(addedEdges, <<u, v>>))
            ELSE edgeLoop(G, Tail(pairs), weighted, addedEdges)

\* grph.add_edges_from(addedEdges)
RECURSIVE add_edges_from(_, _)
add_edges_from(G, ebunch) ==
    IF ebunch = <<>> THEN G
    ELSE add_edges_from(add_edge(G, Head(ebunch)[1], Head(ebunch)[2], EmptyF), Tail(ebunch))

\* `if hID:` is the truth value of the head's identity ("" stands for None too)
addToNetwork(G, nds, o, headNd) ==
    LET G1 == addHead(G, headNd, o)
        hID == IF headNd # None THEN makeID(headNd.v, o.nodeType) ELSE ""
        G2 == addNodes(G1, nds, o)
        idList == [i \in 1..Len(nds) |-> makeID(nds[i], o.nodeType)]
        pairs == IF hID # "" THEN headPairs(hID, idList)
                 ELSE IF Len(idList) > 1 THEN coPairs(idList)
                 ELSE <<>>
        r == edgeLoop(G2, pairs, o.weighted, <<>>)
    IN add_edges_from(r.G, r.addedEdges)

----------------------------------------------------------------------------
(* RecordCollection.citationNetwork and RecordCollection.coCiteNetwork *)

\* coreCites: the keys of {R.createCitation() : R for R in self} when
\* coreOnly is set, else None
coreCitesOf(recs, o) ==
    IF o.coreOnly THEN [v |-> {R.cite : R \in recs}] ELSE None

filtered(cites, recs, o) ==
    filterCites(cites, o.nodeType, o.dropAnon, o.dropNonJournals, o.keyWords,
                coreCitesOf(recs, o))

\* A plausible slip: the Record's own citation is not put to the filter
citationRecordUnfiltered(G, R, recs, o) ==
    IF R.citations # <<>>
    THEN addToNetwork(G, filtered(R.citations, recs, o), o, [v |-> R.cite])
    ELSE G

\* The body of citationNetwork's `for R in self` for one Record
citationRecord(G, R, recs, o) ==
    LET reRef == R.cite
    IN IF Len(filtered(<<reRef>>, recs, o)) = 0 THEN G
       ELSE IF R.citations # <<>>
       THEN addToNetwork(G, filtered(R.citations, recs, o), o, [v |-> reRef])
       ELSE G

\* The body of coCiteNetwork's `for R in self` for one Record
coCiteRecord(G, R, recs, o) ==
    IF R.citations # <<>>
    THEN addToNetwork(G, filtered(R.citations, recs, o), o, None)
    ELSE G

RECURSIVE citationNetwork(_, _, _, _)
citationNetwork(G, recSeq, recs, o) ==
    IF recSeq = <<>> THEN G
    ELSE citationNetwork(citationRecord(G, Head(recSeq), recs, o), Tail(recSeq), recs, o)

\* A Record as the citation builders read it: createCitation() and get('citations')
CiteLists ==
    {<<>>, <<"cX">>, <<"cX", "cY">>, <<"cY", "cX">>, <<"cX", "cZ">>, <<"cY", "cA">>,
     <<"cX", "cX">>, <<"cX", "cY", "cZ">>}

CiteRecs == {[cite |-> c, citations |-> l] : c \in {"cX", "cY", "cZ"}, l \in CiteLists}

\* Collections of at most MaxRecs distinct Records
CiteCollections == {{}} \cup {Range(f) : f \in [1..MaxRecs -> CiteRecs]}

citeDefaults(builder, directed) ==
    [builder |-> builder, nodeType |-> "full", dropAnon |-> TRUE, nodeInfo |-> TRUE,
     fullInfo |-> FALSE, weighted |-> TRUE, dropNonJournals |-> FALSE, count |-> TRUE,
     directed |-> directed, keyWords |-> None, coreOnly |-> FALSE]

\* The default arguments and each argument changed on its own
citeOpts(builder, directed) ==
    LET d == citeDefaults(builder, directed)
    IN {d,
        [d EXCEPT !.nodeType = "author"],
        [d EXCEPT !.nodeType = "year"],
        [d EXCEPT !.dropAnon = FALSE],
        [d EXCEPT !.nodeInfo = FALSE, !.fullInfo = TRUE],
        [d EXCEPT !.weighted = FALSE],
        [d EXCEPT !.dropNonJournals = TRUE],
        [d EXCEPT !.count = FALSE],
        [d EXCEPT !.keyWords = [kind |-> "str", v |-> <<"y">>]],
        [d EXCEPT !.keyWords = [kind |-> "list", v |-> <<<<"j">>, <<"Z">>>>]],
        [d EXCEPT !.coreOnly = TRUE]}

InitCitation ==
    /\ records \in CiteCollections
    /\ todo = records
    /\ opt \in citeOpts("citation", TRUE)
                \cup {[citeDefaults("citation", FALSE) EXCEPT !.weighted = w] : w \in BOOLEAN}
    /\ grph = NewGraph(opt.directed)
    /\ AlgebraIdle

citationFold ==
    /\ opt.builder = "citation"
    /\ \E R \in todo :
        /\ grph' = citationRecord(grph, R, records, opt)
        /\ todo' = todo \ {R}
    /\ UNCHANGED <<records, opt, heap, sets, dicts, last>>

NextCitation == citationFold

SpecCitation == InitCitation /\ [][NextCitation]_vars

\* C2: citationNetwork is order-independent: folding the Records in any
\* order gives the same nodes, edges, edge weights and node counts as folding
\* them in one fixed order, also for a node that is the head node of one
\* Record and cited by another.
C2_CitationOrderIndependent ==
    (opt.builder = "citation" /\ todo = {}) =>
        Obs(grph) = Obs(citationNetwork(NewGraph(opt.directed), SeqOf(records), records, opt))

\* The Records coCiteNetwork folds: it reads createCitation() for coreOnly alone
CoCiteCollections ==
    {{}} \cup {Range(f) : f \in [1..MaxRecs -> {R \in CiteRecs : R.cite \in {"cX", "cY"}}]}

InitCoCite ==
    /\ records \in CoCiteCollections
    /\ todo = records
    /\ opt \in citeOpts("coCite", FALSE)
    /\ grph = NewGraph(FALSE)
    /\ AlgebraIdle

coCiteFold ==
    /\ opt.builder = "coCite"
    /\ \E R \in todo :
        /\ grph' = coCiteRecord(grph, R, records, opt)
        /\ todo' = todo \ {R}
    /\ UNCHANGED <<records, opt, heap, sets, dicts, last>>

NextCoCite == coCiteFold

SpecCoCite == InitCoCite /\ [][NextCoCite]_vars

\* The Records folded so far
folded == records \ todo

\* The identities of a Record's filtered citation list
idListOf(R) ==
    LET f == filtered(R.citations, records, opt)
    IN [i \in 1..Len(f) |-> makeID(f[i], opt.nodeType)]

AllIDs == {makeID(c, t) : c \in Cites, t \in {"full", "author", "year"}} \ {""}

\* The folded Records whose filtered list holds both identities
coCiting(X, Y) == {R \in folded : {X, Y} \subseteq Range(idListOf(R))}

\* C4: in a weighted coCiteNetwork, when every folded Record's filtered
\* citation list holds each identity once, two distinct identities X and Y are
\* joined by an edge iff some folded Record's list holds both, and the edge's
\* weight is the number of such Records.
C4_CoCiteWeight ==
    (opt.builder = "coCite" /\ opt.weighted /\ \A R \in folded : NoDup(idListOf(R))) =>
        \A X, Y \in AllIDs : X # Y =>
            /\ has_edge(grph, X, Y) <=> coCiting(X, Y) # {}
            /\ has_edge(grph, X, Y) =>
                   Weight(grph, EdgeKey(grph, X, Y)) = Cardinality(coCiting(X, Y))

\* Two Records that each cite X and Y have been folded: one edge of weight 2
C4_Witness ==
    /\ opt.builder = "coCite" /\ opt.weighted /\ todo = {}
    /\ \A R \in folded : NoDup(idListOf(R))
    /\ Cardinality(coCiting("X", "Y")) = 2
    /\ Weight(grph, {"X", "Y"}) = 2

----------------------------------------------------------------------------
(* RecordCollection.twoModeNetwork *)

tag1 == "LA"
tag2 == "SO"

\* What R.get(tag) returns: None, a scalar or a list
TagNone == [kind |-> "none", v |-> <<>>]
TagScalar(x) == [kind |-> "scalar", v |-> <<x>>]
TagList(l) == [kind |-> "list", v |-> l]

\* The values of the two tags in the model's Records; J1 occurs under both
Tag1Values ==
    {TagNone, TagScalar("en"), TagList(<<"en", "fr">>), TagList(<<"en", "en">>),
     TagList(<<"J1">>)}

Tag2Values ==
    {TagNone, TagScalar("J1"), TagList(<<>>), TagList(<<"J1", "J2">>),
     TagList(<<"J2", "J1">>), TagList(<<"J1", "J1">>)}

\* A stemmer: None (the identity is used) or a function keeping the first letter
stem(stemmer, x) ==
    IF stemmer = "None" THEN x
    ELSE CASE x \in {"J1", "J2"} -> "J"
           [] x = "en" -> "e"
           [] x = "fr" -> "f"
           [] OTHER -> x

\* contents = [stemmer(str(v)) for v in contents] / [] / [stemmer(str(contents))]
contentsOf(val, stemmer) ==
    IF val.kind = "list" THEN [i \in 1..Len(val.v) |-> stem(stemmer, val.v[i])]
    ELSE IF val.kind = "none" THEN <<>>
    ELSE <<stem(stemmer, val.v[1])>>

\* A plausible slip: an edge that exists is left as it is
twoModeEdgeOnce(G, node1, node2, o) ==
    IF has_edge(G, node1, node2) THEN G
    ELSE IF o.edgeWeight THEN add_edge(G, node1, node2, [weight |-> 1])
    ELSE add_edge(G, node1, node2, EmptyF)

\* The edge step for one (node1, node2)
twoModeEdge(G, node1, node2, o) ==
    IF o.edgeWeight
    THEN IF HasWeight(G, node1, node2) THEN IncWeight(G, node1, node2)
         ELSE add_edge(G, node1, node2, [weight |-> 1])
    ELSE IF ~has_edge(G, node1, node2) THEN add_edge(G, node1, node2, EmptyF)
         ELSE G

RECURSIVE twoModeEdges(_, _, _, _)
twoModeEdges(G, node1, contents2, o) ==
    IF contents2 = <<>> THEN G
    ELSE twoModeEdges(twoModeEdge(G, node1, Head(contents2), o), node1, Tail(contents2), o)

\* The nodeCount = False branch, the same for both tags
twoModeType(G, node, tag, o) ==
    IF ~has_node(G, node)
    THEN (IF o.recordType THEN add_node(G, node, [type |-> tag]) ELSE add_node(G, node, EmptyF))
    ELSE IF o.recordType /\ "type" \notin DOMAIN NodeAttr(G, node)
    THEN SetNodeAttr(G, node, "type", tag)
    ELSE G

\* grph.node[node]['count'] = 1, and the type when recordType
twoModeFirstCount(G, node, tag, o) ==
    LET G1 == SetNodeAttr(G, node, "count", 1)
    IN IF o.recordType THEN SetNodeAttr(G1, node, "type", tag) ELSE G1

\* The node step of the tag1 loop
twoModeNode1(G, node1, o) ==
    IF o.nodeCount
    THEN IF HasCount(G, node1) THEN IncCount(G, node1)
         ELSE IF has_node(G, node1) THEN twoModeFirstCount(G, node1, tag1, o)
         ELSE IF o.recordType THEN add_node(G, node1, [type |-> tag1])
         ELSE add_node(G, node1, EmptyF)
    ELSE twoModeType(G, node1, tag1, o)

\* The node step of the tag2 loop
twoModeNode2(G, node2, o) ==
    IF o.nodeCount
    THEN IF HasCount(G, node2) THEN IncCount(G, node2)
         ELSE IF has_node(G, node2) THEN twoModeFirstCount(G, node2, tag2, o)
         ELSE LET G1 == add_node(G, node2, [count |-> 1])
              IN IF o.recordType THEN SetNodeAttr(G1, node2, "type", tag2) ELSE G1
    ELSE twoModeType(G, node2, tag2, o)

RECURSIVE twoModeLoop1(_, _, _, _)
twoModeLoop1(G, contents1, contents2, o) ==
    IF contents1 = <<>> THEN G
    ELSE LET node1 == Head(contents1)
             G1 == twoModeEdges(G, node1, contents2, o)
             G2 == twoModeNode1(G1, node1, o)
         IN twoModeLoop1(G2, Tail(contents1), contents2, o)

RECURSIVE twoModeLoop2(_, _, _)
twoModeLoop2(G, contents2, o) ==
    IF contents2 = <<>> THEN G
    ELSE twoModeLoop2(twoModeNode2(G, Head(contents2), o), Tail(contents2), o)

\* The body of `for R in self` for one Record
twoModeRecord(G, R, o) ==
    LET contents1 == contentsOf(R.t1, o.stemmerTag1)
        contents2 == contentsOf(R.t2, o.stemmerTag2)
    IN twoModeLoop2(twoModeLoop1(G, contents1, contents2, o), contents2, o)

RECURSIVE twoModeNetwork(_, _, _)
twoModeNetwork(G, recSeq, o) ==
    IF recSeq = <<>> THEN G
    ELSE twoModeNetwork(twoModeRecord(G, Head(recSeq), o), Tail(recSeq), o)

TwoModeRecs == {[t1 |-> a, t2 |-> b] : a \in Tag1Values, b \in Tag2Values}

TwoModeCollections == {{}} \cup {Range(f) : f \in [1..MaxRecs -> TwoModeRecs]}

twoModeDefaults ==
    [builder |-> "twoMode", directed |-> FALSE, recordType |-> TRUE, nodeCount |-> TRUE,
     edgeWeight |-> TRUE, stemmerTag1 |-> "None", stemmerTag2 |-> "None"]

\* The default arguments and each argument changed on its own
TwoModeOpts ==
    {twoModeDefaults,
     [twoModeDefaults EXCEPT !.directed = TRUE],
     [twoModeDefaults EXCEPT !.recordType = FALSE],
     [twoModeDefaults EXCEPT !.nodeCount = FALSE],
     [twoModeDefaults EXCEPT !.edgeWeight = FALSE],
     [twoModeDefaults EXCEPT !.stemmerTag2 = "first"]}

InitTwoMode ==
    /\ records \in TwoModeCollections
    /\ todo = records
    /\ opt \in TwoModeOpts
    /\ grph = NewGraph(opt.directed)
    /\ AlgebraIdle

twoModeFold ==
    /\ opt.builder = "twoMode"
    /\ \E R \in todo :
        /\ grph' = twoModeRecord(grph, R, opt)
        /\ todo' = todo \ {R}
    /\ UNCHANGED <<records, opt, heap, sets, dicts, last>>

NextTwoMode == twoModeFold

SpecTwoMode == InitTwoMode /\ [][NextTwoMode]_vars

\* How often x occurs in a sequence
RECURSIVE occ(_, _)
occ(x, s) == IF s = <<>> THEN 0 ELSE (IF Head(s) = x THEN 1 ELSE 0) + occ(x, Tail(s))

RECURSIVE SumOver(_, _, _)
SumOver(S, F(_), dummy) ==
    IF S = {} THEN 0
    ELSE LET x == CHOOSE y \in S : TRUE IN F(x) + SumOver(S \ {x}, F, dummy)

c1Of(R) == contentsOf(R.t1, opt.stemmerTag1)
c2Of(R) == contentsOf(R.t2, opt.stemmerTag2)

\* The number of times a value occurred under tag1 or tag2 in the folded Records
occurrences(n) ==
    LET f(R) == occ(n, c1Of(R)) + occ(n, c2Of(R)) IN SumOver(folded, f, 0)

\* C3: twoModeNetwork with nodeCount is order-independent: after any order of
\* folding, every node's count is the one a fixed order gives and equals the
\* number of times the value occurred under its tag.
C3_TwoModeCountOrderIndependent ==
    (opt.builder = "twoMode" /\ opt.nodeCount /\ todo = {}) =>
        /\ Obs(grph).count = Obs(twoModeNetwork(NewGraph(opt.directed), SeqOf(records), opt)).count
        /\ \A n \in DOMAIN grph.node : Count(grph, n) = occurrences(n)

\* The values the folded Records produced under each tag
produced1 == UNION {Range(c1Of(R)) : R \in folded}
produced2 == UNION {Range(c2Of(R)) : R \in folded}

\* The folded Records in which a (tag1) and b (tag2) co-occur
coRecords(a, b) == {R \in folded : a \in Range(c1Of(R)) /\ b \in Range(c2Of(R))}

\* The co-occurrences of a and b: pairs of an occurrence of a under tag1 and an
\* occurrence of b under tag2 in the same Record
coOccurrences(a, b) ==
    LET f(R) == occ(a, c1Of(R)) * occ(b, c2Of(R)) IN SumOver(folded, f, 0)

HasType(G, n, tag) ==
    has_node(G, n) /\ "type" \in DOMAIN NodeAttr(G, n) /\ NodeAttr(G, n).type = tag

\* Typing and topology of the default twoModeNetwork, with the edge weights
\* given by W(a, b)
TwoModeShape(W(_, _)) ==
    (opt.builder = "twoMode" /\ opt = twoModeDefaults /\ produced1 \cap produced2 = {}) =>
        /\ \A n \in produced1 : HasType(grph, n, tag1)
        /\ \A n \in produced2 : HasType(grph, n, tag2)
        /\ \A a \in produced1, b \in produced2 :
              coRecords(a, b) # {} =>
                  has_edge(grph, a, b) /\ Weight(grph, EdgeKey(grph, a, b)) = W(a, b)
        /\ \A e \in DOMAIN grph.edge :
              \E a \in produced1, b \in produced2 : e = {a, b} /\ coRecords(a, b) # {}
        /\ \A a, b \in produced1 : ~has_edge(grph, a, b)
        /\ \A a, b \in produced2 : ~has_edge(grph, a, b)

recordsWith(a, b) == Cardinality(coRecords(a, b))

\* C5 as stated: in the default twoModeNetwork (value sets of the two tags
\* disjoint) tag1 nodes have type tag1, tag2 nodes type tag2, every edge joins
\* a tag1 value and a tag2 value of one Record, no edge joins two values of one
\* tag, and an edge's weight is the number of Records in which its ends co-occur.
C5_TwoModeWeightIsRecords == TwoModeShape(recordsWith)

\* C5 amended: the same, with an edge's weight the number of co-occurrences of
\* its ends: a Record counts once for every pair of an occurrence of the tag1
\* value and an occurrence of the tag2 value in its lists (once, when neither
\* list repeats the value).
C5_TwoModeTyping == TwoModeShape(coOccurrences)

\* The Records tag1 = ["en"], tag2 = ["J1", "J2"] folded twice over: en has type
\* tag1, J1 and J2 type tag2, the edges en-J1 and en-J2 weigh 2, no edge J1-J2
C5_Witness ==
    /\ opt = twoModeDefaults /\ todo = {}
    /\ produced1 = {"en"} /\ produced2 = {"J1", "J2"}
    /\ Cardinality(coRecords("en", "J1")) = 2
    /\ HasType(grph, "en", tag1) /\ HasType(grph, "J2", tag2)
    /\ Weight(grph, {"en", "J1"}) = 2
    /\ ~has_edge(grph, "J1", "J2")

----------------------------------------------------------------------------
(* RecordCollection as a set: __init__, the binary set operators, add *)

\* What get('year') returns for a Record with a year
Year(y) == [v |-> y]

\* A Record object as the collection reads it: id, bad and get('year') (None
\* when the year is missing); obj tells apart two objects of one content
Record(obj, id, isBad, year) ==
    [type |-> "Record", obj |-> obj, id |-> id, bad |-> isBad, year |-> year]

\* isinstance(elem, Record)
isRecord(elem) == elem.type = "Record"

\* The canonical serialized form of a Record, over which its equality and hash
\* are defined
serialized(R) == [id |-> R.id, bad |-> R.bad, year |-> R.year]

\* == between two Python values held in or offered to a set
PyEq(x, y) ==
    IF isRecord(x) /\ isRecord(y) THEN serialized(x) = serialized(y) ELSE x = y

\* elem in S, S.add(elem), S.discard(elem) of a Python set: by hash and equality
set_contains(S, elem) == \E m \in S : PyEq(m, elem)

set_add(S, elem) == IF set_contains(S, elem) THEN S ELSE S \cup {elem}

set_discard(S, elem) == {m \in S : ~PyEq(m, elem)}

\* The outcome of a method call: the state after it, the exception it raised
\* ("none": it returned) and the value it returned
Returns(st, ret) == [st |-> st, exc |-> "none", ret |-> ret]

Raises(st, exc) == [st |-> st, exc |-> exc, ret |-> None]

\* The Records the collections of the set algebra are made of
r1 == Record(1, "r1", FALSE, Year(2000))
r2 == Record(2, "r2", FALSE, Year(2005))

RecUniverse == {r1, r2}

\* The program state the set operations work on
State == [heap |-> heap, sets |-> sets, dicts |-> dicts]

\* What a caller sees of collection o
ViewIn(st, o) ==
    [records |-> st.sets[st.heap[o].Records],
     bad |-> st.heap[o].bad,
     errors |-> st.dicts[st.heap[o].errors],
     name |-> st.heap[o].name]

View(o) == ViewIn(State, o)

Objects == 1..Len(heap)

\* __init__(inCollection, name): None gives the empty collection (named
\* "Empty" when no name is given), an iterable of Records is copied into a set
\* of the collection's own; bad is False and errors a new empty dict
__init__(st, inCollection, name) ==
    LET sets1 == Append(st.sets, IF inCollection = None THEN {} ELSE inCollection.v)
        dicts1 == Append(st.dicts, EmptyF)
        obj == [Records |-> Len(sets1), errors |-> Len(dicts1), bad |-> FALSE,
                name |-> IF inCollection = None /\ name = "" THEN "Empty" ELSE name]
    IN [heap |-> Append(st.heap, obj), sets |-> sets1, dicts |-> dicts1]

\* __str__
__str__(rc) == "RecordCollection(" \o rc.name \o ")"

OpSymbol(op) ==
    CASE op = "or" -> " | " [] op = "and" -> " & " [] op = "sub" -> " - " [] op = "xor" -> " ^ "

\* '{} | {}'.format(self, other) and its like
opName(op, a, b) == __str__(a) \o OpSymbol(op) \o __str__(b)

\* A plausible slip: & written as |
setOpAndAsOr(op, S, T) ==
    CASE op = "or" -> S \cup T
      [] op = "and" -> S \cup T
      [] op = "sub" -> S \ T
      [] op = "xor" -> (S \ T) \cup (T \ S)

\* Python's set |, &, -, ^
setOp(op, S, T) ==
    CASE op = "or" -> S \cup T
      [] op = "and" -> S \cap T
      [] op = "sub" -> S \ T
      [] op = "xor" -> (S \ T) \cup (T \ S)

\* A plausible slip: the result is built on self's own set object
pureOpShared(st, op, self, other) ==
    LET a == st.heap[self]
        b == st.heap[other]
        st1 == [st EXCEPT !.sets[a.Records] = setOp(op, @, st.sets[b.Records])]
        dicts1 == Append(st1.dicts, IF b.bad \/ a.bad THEN st.dicts[b.errors] ELSE EmptyF)
        obj == [Records |-> a.Records, errors |-> Len(dicts1), bad |-> b.bad \/ a.bad,
                name |-> opName(op, a, b)]
    IN [heap |-> Append(st1.heap, obj), sets |-> st1.sets, dicts |-> dicts1]

\* A plausible slip: only other.bad is looked at
pureOpOtherBad(st, op, self, other) ==
    LET a == st.heap[self]
        b == st.heap[other]
        st1 == __init__(st, [v |-> setOp(op, st.sets[a.Records], st.sets[b.Records])],
                        opName(op, a, b))
        ret == Len(st1.heap)
    IN IF b.bad
       THEN [st1 EXCEPT !.heap[ret].bad = TRUE,
                        !.dicts[st1.heap[ret].errors] = st.dicts[b.errors] @@ @]
       ELSE st1

\* __or__, __and__, __sub__, __xor__: the new collection is the last object
pureOp(st, op, self, other) ==
    LET a == st.heap[self]
        b == st.heap[other]
        st1 == __init__(st, [v |-> setOp(op, st.sets[a.Records], st.sets[b.Records])],
                        opName(op, a, b))
        ret == Len(st1.heap)
    IN IF b.bad \/ a.bad
       THEN [st1 EXCEPT !.heap[ret].bad = TRUE,
                        !.dicts[st1.heap[ret].errors] = st.dicts[b.errors] @@ @]
       ELSE st1

\* __ior__, __iand__, __isub__, __ixor__: self's set and dict are updated in place
inPlaceOp(st, op, self, other) ==
    LET a == st.heap[self]
        b == st.heap[other]
        st1 == [st EXCEPT !.sets[a.Records] = setOp(op, @, st.sets[b.Records])]
    IN IF b.bad \/ a.bad
       THEN [st1 EXCEPT !.heap[self].bad = TRUE,
                        !.dicts[a.errors] = st.dicts[b.errors] @@ @]
       ELSE st1

\* A plausible slip: the element is put in without looking for an equal member
addUnchecked(st, self, elem) ==
    IF isRecord(elem)
    THEN Returns([st EXCEPT !.sets[st.heap[self].Records] = @ \cup {elem}], None)
    ELSE Raises(st, "RCTypeError")

\* add(elem)
add(st, self, elem) ==
    IF isRecord(elem)
    THEN Returns([st EXCEPT !.sets[st.heap[self].Records] = set_add(@, elem)], None)
    ELSE Raises(st, "RCTypeError")

\* __eq__
__eq__(st, x, y) == st.sets[st.heap[x].Records] = st.sets[st.heap[y].Records]

Ops == {"or", "and", "sub", "xor"}

\* No network is being built while collections are combined
NetworkIdle ==
    /\ records = {}
    /\ todo = {}
    /\ grph = NewGraph(FALSE)
    /\ opt = [builder |-> "none"]

\* A collection read from a file: bad with the file's error recorded when the
\* parser failed
parsed(st, recs, name, isBad) ==
    LET st1 == __init__(st, [v |-> recs], name)
        o == Len(st1.heap)
    IN IF isBad
       THEN [st1 EXCEPT !.heap[o].bad = TRUE,
                        !.dicts[st1.heap[o].errors] = [f \in {"file" \o name} |-> "error" \o name]]
       ELSE st1

\* Two collections A and B
InitAlgebra ==
    /\ \E ra \in {{r1}, {r1, r2}}, rb \in {{}, {r2}}, ba, bb \in BOOLEAN :
          LET st == parsed(parsed([heap |-> <<>>, sets |-> <<>>, dicts |-> <<>>],
                                  ra, "A", ba), rb, "B", bb)
          IN heap = st.heap /\ sets = st.sets /\ dicts = st.dicts
    /\ last = [kind |-> "none", n |-> 0]
    /\ NetworkIdle

Snapshot == [o \in Objects |-> View(o)]

Apply(st) == heap' = st.heap /\ sets' = st.sets /\ dicts' = st.dicts

PureOp ==
    /\ last.n < MaxOps
    /\ \E op \in Ops, self, other \in Objects :
        /\ Apply(pureOp(State, op, self, other))
        /\ last' = [kind |-> "pure", op |-> op, self |-> self, other |-> other,
                    ret |-> Len(heap) + 1, pre |-> Snapshot, n |-> last.n + 1]
    /\ UNCHANGED <<records, todo, grph, opt>>

InPlaceOp ==
    /\ last.n < MaxOps
    /\ \E op \in Ops, self, other \in Objects :
        /\ Apply(inPlaceOp(State, op, self, other))
        /\ last' = [kind |-> "inplace", op |-> op, self |-> self, other |-> other,
                    ret |-> self, pre |-> Snapshot, n |-> last.n + 1]
    /\ UNCHANGED <<records, todo, grph, opt>>

Add ==
    /\ last.n < MaxOps
    /\ \E self \in Objects, elem \in RecUniverse :
        /\ Apply(add(State, self, elem).st)
        /\ last' = [kind |-> "add", op |-> "add", self |-> self, other |-> self,
                    ret |-> self, pre |-> Snapshot, n |-> last.n + 1]
    /\ UNCHANGED <<records, todo, grph, opt>>

NextAlgebra == PureOp \/ InPlaceOp \/ Add

SpecAlgebra == InitAlgebra /\ [][NextAlgebra]_vars

----------------------------------------------------------------------------
(* Properties of the set algebra *)

\* The collection the last operation returned (self, for an in-place one)
Result == View(last.ret)

\* The operands as they were before the last operation
PreSelf == last.pre[last.self]
PreOther == last.pre[last.other]

Binary == last.kind \in {"pure", "inplace"}

\* C6: after every binary set operation, pure (|, &, -, ^) or in-place
\* (|=, &=, -=, ^=), the bad flag of the result (of self, in place) is
\* self.bad or other.bad of the operands before the operation.
C6_BadIsOr == Binary => (Result.bad <=> (PreSelf.bad \/ PreOther.bad))

\* Both forms have acted with only self bad, the result is bad
C6_Witness ==
    /\ Binary
    /\ PreSelf.bad /\ ~PreOther.bad
    /\ Result.bad

\* C7: after every pure binary set operation the errors map of the new
\* collection holds every key of self's errors and of other's errors.
C7_ErrorsUnion ==
    last.kind = "pure" =>
        DOMAIN Result.errors = DOMAIN PreSelf.errors \cup DOMAIN PreOther.errors

\* The laws for two collections x and y of a program state st
Commutes(st, x, y) ==
    LET s1 == pureOp(st, "or", x, y)
        s2 == pureOp(s1, "or", y, x)
    IN __eq__(s2, Len(s1.heap), Len(s2.heap))

MeetBelow(st, x, y) ==
    LET s1 == pureOp(st, "and", x, y)
        m == ViewIn(s1, Len(s1.heap)).records
    IN m \subseteq ViewIn(st, x).records /\ m \subseteq ViewIn(st, y).records

SelfDifferenceEmpty(st, x) ==
    LET s1 == pureOp(st, "sub", x, x) IN ViewIn(s1, Len(s1.heap)).records = {}

\* RecordCollection() is the empty collection
UnionWithEmpty(st, x) ==
    LET s1 == __init__(st, None, "")
        s2 == pureOp(s1, "or", x, Len(s1.heap))
    IN __eq__(s2, Len(s2.heap), x)

\* C8: for all collections A and B the program has built (with operations to
\* spare for the law's own): A | B == B | A, every Record of A & B is in A and
\* in B, A - A has no Records, and A | RecordCollection() == A, where ==
\* compares the Records; and the operations the program has performed agree
\* with the set operation on the operands' Records.
C8_SetLaws ==
    /\ last.n < MaxOps =>
          \A x, y \in Objects :
              /\ Commutes(State, x, y)
              /\ MeetBelow(State, x, y)
              /\ SelfDifferenceEmpty(State, x)
              /\ UnionWithEmpty(State, x)
    /\ (last.kind = "pure" /\ last.op = "and") =>
          Result.records = PreSelf.records \cap PreOther.records
    /\ (last.kind = "pure" /\ last.op = "or") =>
          Result.records = PreSelf.records \cup PreOther.records
    /\ (last.kind = "pure" /\ last.op = "sub" /\ last.self = last.other) =>
          Result.records = {}

\* A & B has been computed for overlapping A and B that differ: the result is
\* a proper, non-empty part of A
C8_Witness ==
    /\ last.kind = "pure" /\ last.op = "and"
    /\ Result.records # {}
    /\ Result.records # PreSelf.records
    /\ Result.records \subseteq PreOther.records

\* No two collections share a set or a dict object
NoSharing ==
    \A x, y \in Objects : x # y =>
        /\ heap[x].Records # heap[y].Records
        /\ heap[x].errors # heap[y].errors

\* C9: a pure operation leaves every collection that existed before it as it
\* was (Records, bad, errors, name) and returns a new collection with a set
\* and a dict of its own; an in-place operation or an add changes at most
\* self. So a later mutation of a returned collection leaves the operands it
\* was made from unchanged.
C9_Frame ==
    /\ last.kind = "pure" =>
          /\ last.ret \notin DOMAIN last.pre
          /\ \A o \in DOMAIN last.pre : View(o) = last.pre[o]
    /\ last.kind \in {"inplace", "add"} =>
          \A o \in DOMAIN last.pre : o # last.self => View(o) = last.pre[o]
    /\ last.kind # "none" => NoSharing

\* A collection returned by a pure operation (object 3) has then been changed
\* in place, and the two operands are as they were
C9_Witness ==
    /\ last.kind \in {"inplace", "add"}
    /\ last.n = 2
    /\ last.self = 3
    /\ View(3) # last.pre[3]
    /\ View(1) = last.pre[1] /\ View(2) = last.pre[2]

\* C10: every binary set operation, pure or in-place, gives the resulting
\* collection the name made of the operation and its operands, and an
\* operation that changes the Records of a collection changes its name.
C10_NameRegenerated ==
    /\ Binary => Result.name = opName(last.op, PreSelf, PreOther)
    /\ (last.kind \in {"inplace", "add"} /\ Result.records # PreSelf.records) =>
          Result.name # PreSelf.name

----------------------------------------------------------------------------
(* RecordCollection members: add, discard, remove, the lookups by id,      *)
(* BadRecords, dropBadRecords, yearSplit                                   *)

\* __repr__
__repr__(rc) == "<metaknowledge.RecordCollection object " \o rc.name \o ">"

\* The Records of collection self
RecordsOf(st, self) == st.sets[st.heap[self].Records]

\* discard(elem)
discard(st, self, elem) ==
    Returns([st EXCEPT !.sets[st.heap[self].Records] = set_discard(@, elem)], None)

\* A plausible slip: remove written as discard
removeSilently(st, self, elem) ==
    Returns([st EXCEPT !.sets[st.heap[self].Records] = set_discard(@, elem)], None)

\* remove(elem): the set's KeyError is raised anew
remove(st, self, elem) ==
    IF set_contains(RecordsOf(st, self), elem)
    THEN Returns([st EXCEPT !.sets[st.heap[self].Records] = set_discard(@, elem)], None)
    ELSE Raises(st, "KeyError")

\* The members `for R in self: if R.id == idVal` can stop at
matching(st, self, idVal) == {R \in RecordsOf(st, self) : R.id = idVal}

\* containsID(idVal)
containsID(st, self, idVal) == matching(st, self, idVal) # {}

\* What the loop of a lookup can meet first: a matching member, or None when
\* the loop runs to its end
FirstMatches(st, self, idVal) ==
    IF containsID(st, self, idVal) THEN matching(st, self, idVal) ELSE {None}

\* discardID(idVal), the loop stopping at R
discardID(st, self, idVal, R) ==
    IF R # None
    THEN Returns([st EXCEPT !.sets[st.heap[self].Records] = set_discard(@, R)], None)
    ELSE Returns(st, None)

\* A plausible slip: the loop goes on after a removal
removeEveryID(st, self, idVal, R) ==
    IF R # None
    THEN Returns([st EXCEPT !.sets[st.heap[self].Records] = @ \ matching(st, self, idVal)],
                 None)
    ELSE Raises(st, "KeyError")

\* removeID(idVal), the loop stopping at R
removeID(st, self, idVal, R) ==
    IF R # None
    THEN Returns([st EXCEPT !.sets[st.heap[self].Records] = set_discard(@, R)], None)
    ELSE Raises(st, "KeyError")

\* getID(idVal), the loop stopping at R
getID(st, self, idVal, R) == Returns(st, R)

\* BadRecords(): a new collection, the last object
BadRecords(st, self) ==
    LET badRecords == {R \in RecordsOf(st, self) : R.bad}
        st1 == __init__(st, [v |-> badRecords], __repr__(st.heap[self]) \o "_badRecords")
    IN Returns(st1, Len(st1.heap))

\* self._Records = <a new set>
Rebind(st, self, S) ==
    LET sets1 == Append(st.sets, S)
    IN [st EXCEPT !.sets = sets1, !.heap[self].Records = Len(sets1)]

\* A plausible slip: the `not` is missing
dropGoodRecords(st, self) ==
    Returns(Rebind(st, self, {r \in RecordsOf(st, self) : r.bad}), None)

\* dropBadRecords()
dropBadRecords(st, self) ==
    Returns(Rebind(st, self, {r \in RecordsOf(st, self) : ~r.bad}), None)

\* "{}({}-{})".format(self.name, startYear, endYear)
yearSplitName(rc, startYear, endYear) ==
    rc.name \o "(" \o ToString(startYear) \o "-" \o ToString(endYear) \o ")"

\* R.get('year') >= startYear raises TypeError
yearMissing(R) == R.year = None

\* A plausible slip: the end year is left out
yearSplitExclusive(st, self, startYear, endYear, dropMissingYears) ==
    LET S == RecordsOf(st, self)
        recordsInRange ==
            {R \in S : ~yearMissing(R) /\ R.year.v >= startYear /\ R.year.v < endYear}
        st1 == __init__(st, [v |-> recordsInRange],
                        yearSplitName(st.heap[self], startYear, endYear))
    IN IF ~dropMissingYears /\ \E R \in S : yearMissing(R)
       THEN Raises(st, "TypeError")
       ELSE Returns(st1, Len(st1.heap))

\* yearSplit(startYear, endYear, dropMissingYears): the loop raises at the
\* first Record without a year unless such Records are dropped
yearSplit(st, self, startYear, endYear, dropMissingYears) ==
    LET S == RecordsOf(st, self)
        recordsInRange ==
            {R \in S : ~yearMissing(R) /\ R.year.v >= startYear /\ R.year.v <= endYear}
        st1 == __init__(st, [v |-> recordsInRange],
                        yearSplitName(st.heap[self], startYear, endYear))
    IN IF ~dropMissingYears /\ \E R \in S : yearMissing(R)
       THEN Raises(st, "TypeError")
       ELSE Returns(st1, Len(st1.heap))

\* The Records of the member operations: m1copy is another object with m1's
\* content, m1b another Record with m1's id (bad, without a year)
m1 == Record(1, "i1", FALSE, Year(2000))
m1copy == Record(2, "i1", FALSE, Year(2000))
m1b == Record(3, "i1", TRUE, None)
m2 == Record(4, "i2", FALSE, Year(2005))
m3 == Record(5, "i3", FALSE, Year(1999))
m4 == Record(6, "i4", TRUE, Year(2006))

MemberRecs == {m1, m1copy, m1b, m2, m3, m4}

\* A value that is not a Record
NotARecord == [type |-> "str", v |-> "x"]

Elems == MemberRecs \cup {NotARecord}

IdVals == {"i1", "i2", "i4", "i9"}

YearRanges == {<<2000, 2005>>, <<2000, 2000>>}

\* The collections the operations start from
MemberCollections ==
    {{}, {m1, m2}, {m1, m1b, m4}, {m2, m3, m4}, {m1, m1b, m2, m3, m4}}

InitMembers ==
    /\ \E S \in MemberCollections :
          LET st == parsed([heap |-> <<>>, sets |-> <<>>, dicts |-> <<>>], S, "A", FALSE)
          IN heap = st.heap /\ sets = st.sets /\ dicts = st.dicts
    /\ last = [kind |-> "none", n |-> 0]
    /\ NetworkIdle

\* A method call with its outcome
Call(kind, self, arg, out) ==
    /\ Apply(out.st)
    /\ last' = [kind |-> kind, op |-> kind, self |-> self, other |-> self, arg |-> arg,
                exc |-> out.exc, ret |-> out.ret, pre |-> Snapshot, n |-> last.n + 1]
    /\ UNCHANGED <<records, todo, grph, opt>>

AddElem ==
    /\ last.n < MaxOps
    /\ \E self \in Objects, elem \in Elems : Call("add", self, elem, add(State, self, elem))

Discard ==
    /\ last.n < MaxOps
    /\ \E self \in Objects, elem \in Elems :
          Call("discard", self, elem, discard(State, self, elem))

Remove ==
    /\ last.n < MaxOps
    /\ \E self \in Objects, elem \in Elems :
          Call("remove", self, elem, remove(State, self, elem))

DiscardID ==
    /\ last.n < MaxOps
    /\ \E self \in Objects, idVal \in IdVals :
          \E R \in FirstMatches(State, self, idVal) :
              Call("discardID", self, idVal, discardID(State, self, idVal, R))

RemoveID ==
    /\ last.n < MaxOps
    /\ \E self \in Objects, idVal \in IdVals :
          \E R \in FirstMatches(State, self, idVal) :
              Call("removeID", self, idVal, removeID(State, self, idVal, R))

GetID ==
    /\ last.n < MaxOps
    /\ \E self \in Objects, idVal \in IdVals :
          \E R \in FirstMatches(State, self, idVal) :
              Call("getID", self, idVal, getID(State, self, idVal, R))

CallBadRecords ==
    /\ last.n < MaxOps
    /\ \E self \in Objects : Call("BadRecords", self, None, BadRecords(State, self))

CallDropBadRecords ==
    /\ last.n < MaxOps
    /\ \E self \in Objects : Call("dropBadRecords", self, None, dropBadRecords(State, self))

YearSplit ==
    /\ last.n < MaxOps
    /\ \E self \in Objects, range \in YearRanges, dropMissingYears \in BOOLEAN :
          Call("yearSplit", self,
               [startYear |-> range[1], endYear |-> range[2],
                dropMissingYears |-> dropMissingYears],
               yearSplit(State, self, range[1], range[2], dropMissingYears))

NextMembers ==
    \/ AddElem
    \/ Discard
    \/ Remove
    \/ DiscardID
    \/ RemoveID
    \/ GetID
    \/ CallBadRecords
    \/ CallDropBadRecords
    \/ YearSplit

SpecMembers == InitMembers /\ [][NextMembers]_vars

----------------------------------------------------------------------------
(* Properties of the member operations *)

\* Every collection but self is as it was before the last call
OthersUnchanged ==
    \A o \in DOMAIN last.pre : o # last.self => View(o) = last.pre[o]

\* Every collection is as it was before the last call
AllUnchanged == \A o \in DOMAIN last.pre : View(o) = last.pre[o]

\* self after the last call, with the Records left aside
SelfKept ==
    [View(last.self) EXCEPT !.records = {}] = [PreSelf EXCEPT !.records = {}]

\* The argument of the last call was a member before it
WasMember == set_contains(PreSelf.records, last.arg)

\* C11: remove(r) of a Record that is not in the collection raises KeyError
\* and leaves the collection as it was; discard(r) of one that is not in it
\* returns and leaves the collection as it was; when r is in the collection
\* both return and take out r and nothing else.
C11_RemoveDiscard ==
    /\ (last.kind = "remove" /\ ~WasMember) => (last.exc = "KeyError" /\ AllUnchanged)
    /\ (last.kind = "discard" /\ ~WasMember) => (last.exc = "none" /\ AllUnchanged)
    /\ (last.kind \in {"remove", "discard"} /\ WasMember) =>
          /\ last.exc = "none"
          /\ View(last.self).records = {m \in PreSelf.records : ~PyEq(m, last.arg)}
          /\ Cardinality(View(last.self).records) = Cardinality(PreSelf.records) - 1
          /\ SelfKept
          /\ OthersUnchanged

\* remove of an absent Record has raised, on a collection that holds others
C11_Witness ==
    /\ last.kind = "remove"
    /\ isRecord(last.arg) /\ ~WasMember
    /\ PreSelf.records # {}
    /\ last.exc = "KeyError"

\* No collection holds two equal Records
NoEqualMembers ==
    \A o \in Objects : \A a, b \in View(o).records : PyEq(a, b) => a = b

\* C12: add(x) of a value that is not a Record raises RCTypeError and leaves
\* the collection as it was; add(x) of a Record returns with x a member, the
\* size unchanged when an equal Record was a member and one more otherwise; no
\* collection ever holds two equal Records.
C12_AddTyped ==
    /\ (last.kind = "add" /\ ~isRecord(last.arg)) =>
          (last.exc = "RCTypeError" /\ AllUnchanged)
    /\ (last.kind = "add" /\ isRecord(last.arg)) =>
          /\ last.exc = "none"
          /\ set_contains(View(last.self).records, last.arg)
          /\ PreSelf.records \subseteq View(last.self).records
          /\ Cardinality(View(last.self).records) =
                Cardinality(PreSelf.records) + (IF WasMember THEN 0 ELSE 1)
          /\ SelfKept
          /\ OthersUnchanged
    /\ last.kind # "none" => NoEqualMembers

\* A second object with the content of the member m1 has been added: the
\* collection is as it was
C12_Witness ==
    /\ last.kind = "add"
    /\ last.arg = m1copy
    /\ m1 \in PreSelf.records
    /\ View(last.self).records = PreSelf.records

\* containsID(idVal) before the last call
HadID == \E R \in PreSelf.records : R.id = last.arg

\* What the lookups by id do whatever the ids of the members are; Gone says
\* when containsID(id) is false after a removeID that found a member
LookupById(Gone) ==
    /\ last.kind = "getID" =>
          /\ last.exc = "none"
          /\ (last.ret = None) <=> ~HadID
          /\ last.ret # None => (last.ret \in PreSelf.records /\ last.ret.id = last.arg)
          /\ AllUnchanged
    /\ (last.kind = "removeID" /\ ~HadID) => (last.exc = "KeyError" /\ AllUnchanged)
    /\ (last.kind = "removeID" /\ HadID) =>
          /\ last.exc = "none"
          /\ \E R \in PreSelf.records :
                R.id = last.arg /\ View(last.self).records = PreSelf.records \ {R}
          /\ SelfKept
          /\ OthersUnchanged
          /\ Gone

SplitsInTwo(o) ==
    LET b == BadRecords(State, o)
        d == dropBadRecords(b.st, o)
        badOnes == RecordsOf(b.st, b.ret)
        kept == RecordsOf(d.st, o)
    IN /\ badOnes \cap kept = {}
       /\ badOnes \cup kept = View(o).records

\* C14: BadRecords() returns a new collection of exactly the members with bad
\* set and leaves every collection as it was; dropBadRecords() leaves self
\* with exactly the members with bad not set; what BadRecords() returns and
\* what dropBadRecords() then leaves are disjoint and together hold every
\* member.
C14_BadPartition ==
    /\ last.kind = "BadRecords" =>
          /\ last.exc = "none"
          /\ last.ret \notin DOMAIN last.pre
          /\ View(last.ret).records = {R \in PreSelf.records : R.bad}
          /\ AllUnchanged
    /\ last.kind = "dropBadRecords" =>
          /\ last.exc = "none"
          /\ View(last.self).records = {R \in PreSelf.records : ~R.bad}
          /\ SelfKept
          /\ OthersUnchanged
    /\ last.kind # "none" => \A o \in Objects : SplitsInTwo(o)

\* dropBadRecords has dropped some members and kept others
C14_Witness ==
    /\ last.kind = "dropBadRecords"
    /\ View(last.self).records # {}
    /\ View(last.self).records # PreSelf.records
    /\ \A R \in View(last.self).records : ~R.bad

\* A member without a year
HadMissingYear == \E R \in PreSelf.records : R.year = None

\* C15: yearSplit(startYear, endYear) returns a new collection of exactly the
\* members with startYear <= year <= endYear and leaves every collection as
\* it was; a member without a year is left out when dropMissingYears is set,
\* and when it is not set the call raises TypeError and makes no collection.
C15_YearSplit ==
    last.kind = "yearSplit" =>
        /\ AllUnchanged
        /\ (HadMissingYear /\ ~last.arg.dropMissingYears) =>
              /\ last.exc = "TypeError"
              /\ last.ret = None
              /\ Objects = DOMAIN last.pre
        /\ ~(HadMissingYear /\ ~last.arg.dropMissingYears) =>
              /\ last.exc = "none"
              /\ last.ret \notin DOMAIN last.pre
              /\ View(last.ret).records =
                    {R \in PreSelf.records :
                        /\ R.year # None
                        /\ last.arg.startYear <= R.year.v
                        /\ R.year.v <= last.arg.endYear}

\* yearSplit(2000, 2005) of a collection with members of 1999, 2000, 2005,
\* 2006 and one without a year, dropped: the members of 2000 and 2005
C15_Witness ==
    /\ last.kind = "yearSplit"
    /\ last.arg.dropMissingYears
    /\ PreSelf.records = {m1, m1b, m2, m3, m4}
    /\ View(last.ret).records = {m1, m2}

----------------------------------------------------------------------------
(* filterCites as a function of its arguments *)

NodeTypes == {"full", "author", "year", "journal"}

\* keyWords: None, a string, a list of strings; "" and [] are given too
KeyWordArgs ==
    {None,
     [kind |-> "str", v |-> <<"y">>],
     [kind |-> "str", v |-> <<>>],
     [kind |-> "list", v |-> <<<<"j">>, <<"Z">>>>],
     [kind |-> "list", v |-> <<>>]}

\* coreCites: None or a collection of Citations
CoreArgs == {None, [v |-> {}], [v |-> {"cX"}], [v |-> {"cX", "cZ"}]}

FilterArgs ==
    [cites : CiteLists \cup {<<"cZ", "cA", "cX">>, <<"cA", "cY", "cZ", "cY">>},
     nodeType : NodeTypes, dropAnon : BOOLEAN, dropNonJournals : BOOLEAN,
     keyWords : KeyWordArgs, coreCites : CoreArgs]

InitFilter ==
    /\ opt \in FilterArgs
    /\ records = {}
    /\ todo = {}
    /\ grph = NewGraph(FALSE)
    /\ AlgebraIdle

\* filterCites(cites, nodeType, dropAnon, dropNonJournals, keyWords, coreCites)
FilterCall ==
    /\ last.kind = "none"
    /\ last' = [kind |-> "filterCites", n |-> 1,
                ret |-> filterCites(opt.cites, opt.nodeType, opt.dropAnon,
                                    opt.dropNonJournals, opt.keyWords, opt.coreCites)]
    /\ UNCHANGED <<records, todo, grph, opt, heap, sets, dicts>>

NextFilter == FilterCall

SpecFilter == InitFilter /\ [][NextFilter]_vars

\* The keywords supplied, as a set of strings
suppliedKeyWords ==
    IF opt.keyWords = None THEN {}
    ELSE IF opt.keyWords.kind = "str"
    THEN (IF opt.keyWords.v = <<>> THEN {} ELSE {opt.keyWords.v})
    ELSE Range(opt.keyWords.v)

\* The four checks the claim names, each applying when it is enabled; a match
\* of a keyword is taken without regard to case
passesNamedChecks(c) ==
    /\ opt.dropAnon => ~Citation[c].isAnonymous
    /\ opt.dropNonJournals => Citation[c].isJournal
    /\ (opt.coreCites # None /\ opt.coreCites.v # {}) => c \in opt.coreCites.v
    /\ \A k \in suppliedKeyWords : ~IsSubstring(Upper(k), Upper(Citation[c].str))

\* The citation has the field that nodeType names
hasNodeTypeField(c) == opt.nodeType = "full" \/ Citation[c][opt.nodeType] # ""

passesAllChecks(c) == hasNodeTypeField(c) /\ passesNamedChecks(c)

----------------------------------------------------------------------------
(* Properties of citationNetwork *)

\* The Record's own citation passes the filter
headPasses(R) == filtered(<<R.cite>>, records, opt) # <<>>

\* The identity of the Record's own citation
headID(R) == makeID(R.cite, opt.nodeType)

\* The folded Records that reach addToNetwork
contributing == {R \in folded : headPasses(R) /\ R.citations # <<>>}

\* C17: in citationNetwork a Record whose own citation is rejected by the
\* filter adds no node and no edge: the edges of the graph are exactly the
\* edges from the identity of a Record's own citation, which passed the
\* filter, to the identities of the citations of that Record that passed it
\* (in that direction when directed), and the nodes are those identities.
C17_HeadFiltered ==
    opt.builder = "citation" =>
        /\ DOMAIN grph.edge =
              {EdgeKey(grph, headID(R), id) :
                   <<R, id>> \in {p \in contributing \X AllIDs : p[2] \in Range(idListOf(p[1]))}}
        /\ DOMAIN grph.node =
              {headID(R) : R \in contributing}
                  \cup UNION {Range(idListOf(R)) : R \in contributing}

\* A directed network from a Record whose own citation is rejected while its
\* citations pass, and a Record that passes: the graph has the edges of the
\* second alone
C17_Witness ==
    /\ opt.builder = "citation" /\ opt.directed /\ todo = {}
    /\ \E R \in folded : ~headPasses(R) /\ idListOf(R) # <<>>
    /\ contributing # {}
    /\ DOMAIN grph.edge # {}

\* The citation lacks the field nodeType names and passes every other check
lacksFieldOnly(c) ==
    /\ opt.nodeType # "full"
    /\ Citation[c][opt.nodeType] = ""
    /\ keepCite(c, "full", opt.dropAnon, opt.dropNonJournals, opt.keyWords,
                coreCitesOf(records, opt))

\* C18: in a network built with nodeType author, journal or year the
\* citations without that field are kept: once a Record citing one is folded,
\* the graph has the node keyed by the value that stands for the missing field
\* (the identity makeID gives such a citation), on which they all collapse.
C18_MissingPooled ==
    opt.builder = "coCite" =>
        \A R \in folded : \A i \in 1..Len(R.citations) :
            lacksFieldOnly(R.citations[i]) =>
                has_node(grph, makeID(R.citations[i], opt.nodeType))

----------------------------------------------------------------------------
(* expandRecs *)

\* The orders in which a set can be iterated
Orders(S) == {o \in [1..Cardinality(S) -> S] : NoDup(o)}

\* fullCiteList = [makeID(c, nodeType) for c in Rec.createCitation(multiCite = True)]
fullCiteListOf(Rec, nodeType) ==
    [i \in 1..Len(Rec.multi) |-> makeID(Rec.multi[i], nodeType)]

\* G.edges_iter(citeID1): the keys of the edges at citeID1 (those leaving it
\* in a DiGraph)
edgesAt(G, n) ==
    IF G.directed THEN {k \in DOMAIN G.edge : k[1] = n}
    ELSE {k \in DOMAIN G.edge : n \in k}

\* e2 of the edge (e1, e2, data) that edges_iter(e1) yields for the key
otherEnd(G, k, n) ==
    IF G.directed THEN k[2]
    ELSE IF k = {n} THEN n ELSE CHOOSE m \in k : m # n

\* for e1, e2, data in G.edges_iter(citeID1, data = True):
\*     G.add_edge(citeID2, e2, attr_dict = data)
\* over the given edges of citeID1, in the given order
RECURSIVE relink(_, _, _, _)
relink(G, citeID1, citeID2, keys) ==
    IF keys = <<>> THEN G
    ELSE relink(add_edge(G, citeID2, otherEnd(G, Head(keys), citeID1),
                         G.edge[Head(keys)]),
                citeID1, citeID2, Tail(keys))

\* The relinking loop adds a key to the dictionary it iterates (the neighbours
\* of citeID1) exactly when citeID1 has a self-loop and citeID2 is not yet its
\* neighbour in an undirected graph: Python then raises RuntimeError
dictChanges(G, citeID1, citeID2) ==
    /\ ~G.directed
    /\ citeID1 # citeID2
    /\ has_edge(G, citeID1, citeID1)
    /\ ~has_edge(G, citeID1, citeID2)

\* The graphs the interrupted loop can leave: the edges met before the
\* self-loop (any of the others, by the dictionary's order) and the self-loop
\* itself have been copied
interrupted(G, citeID1, citeID2) ==
    LET self == EdgeKey(G, citeID1, citeID1)
    IN {relink(G, citeID1, citeID2, SeqOf(T) \o <<self>>) :
            T \in SUBSET (edgesAt(G, citeID1) \ {self})}

expandDone(G) == [G |-> G, exc |-> "none", at |-> <<>>]

\* The body of "for citeID2 in fullCiteList[i + 1:]" up to the relinking loop
expandLink(G, citeID1, citeID2, weighted) ==
    IF ~has_node(G, citeID2)
    THEN add_edge(add_node_ref(G, citeID2, G.node[citeID1]), citeID1, citeID2,
                  IF weighted THEN [weight |-> 1] ELSE EmptyF)
    ELSE IF weighted THEN bumpEdge(G, citeID1, citeID2)
    ELSE G

expandRelink(G, citeID1, citeID2) ==
    relink(G, citeID1, citeID2, SeqOf(edgesAt(G, citeID1)))

\* for citeID2 in fullCiteList[i + 1:]
RECURSIVE expandInner(_, _, _, _)
expandInner(G, citeID1, rest, weighted) ==
    IF rest = <<>> THEN expandDone(G)
    ELSE LET citeID2 == Head(rest)
             G1 == expandLink(G, citeID1, citeID2, weighted)
         IN IF dictChanges(G1, citeID1, citeID2)
            THEN [G |-> G1, exc |-> "RuntimeError", at |-> <<citeID1, citeID2>>]
            ELSE expandInner(expandRelink(G1, citeID1, citeID2), citeID1,
                             Tail(rest), weighted)

\* for i, citeID1 in enumerate(fullCiteList): if citeID1 in G: ...
RECURSIVE expandOuter(_, _, _, _)
expandOuter(G, fullCiteList, i, weighted) ==
    IF i > Len(fullCiteList) THEN expandDone(G)
    ELSE IF ~has_node(G, fullCiteList[i])
         THEN expandOuter(G, fullCiteList, i + 1, weighted)
         ELSE LET out == expandInner(G, fullCiteList[i],
                                     SubSeq(fullCiteList, i + 1, Len(fullCiteList)),
                                     weighted)
              IN IF out.exc # "none" THEN out
                 ELSE expandOuter(out.G, fullCiteList, i + 1, weighted)

\* for Rec in RecCollect: ... if len(fullCiteList) > 1: ...
RECURSIVE expandRecs(_, _, _, _)
expandRecs(G, RecCollect, nodeType, weighted) ==
    IF RecCollect = <<>> THEN expandDone(G)
    ELSE LET fullCiteList == fullCiteListOf(Head(RecCollect), nodeType)
             out == IF Len(fullCiteList) > 1
                    THEN expandOuter(G, fullCiteList, 1, weighted)
                    ELSE expandDone(G)
         IN IF out.exc # "none" THEN out
            ELSE expandRecs(out.G, Tail(RecCollect), nodeType, weighted)

\* The citation lists createCitation(multiCite = True) returns in the model
MultiCites ==
    {<<"cX">>, <<"cX", "cY">>, <<"cY", "cX">>, <<"cX", "cA">>, <<"cX", "cY", "cZ">>}

ExpandCollections ==
    {S \in SUBSET {[multi |-> l] : l \in MultiCites} : Cardinality(S) <= MaxRecs}

\* A graph with the given nodes and edges (pairs of node ids), each edge with
\* weight 1 when weighted
RECURSIVE withNodes(_, _)
withNodes(G, ns) ==
    IF ns = <<>> THEN G
    ELSE withNodes(add_node(G, Head(ns), [count |-> 1]), Tail(ns))

RECURSIVE withEdges(_, _, _)
withEdges(G, es, weighted) ==
    IF es = <<>> THEN G
    ELSE withEdges(add_edge(G, Head(es)[1], Head(es)[2],
                            IF weighted THEN [weight |-> 1] ELSE EmptyF),
                   Tail(es), weighted)

\* The graphs handed to expandRecs: some of the citations as nodes, some
\* edges between them, a self-loop included
ExpandNodes == {{}, {"cX"}, {"cY"}, {"cX", "cY"}, {"cX", "cA"}, {"cX", "cY", "cZ", "cA"}}

ExpandEdges == {<<"cX", "cY">>, <<"cX", "cA">>, <<"cA", "cY">>, <<"cX", "cX">>}

ExpandGraphs(directed, nodeType, weighted) ==
    {withEdges(withNodes(NewGraph(directed),
                         SeqOf({makeID(c, nodeType) : c \in N})),
               SeqOf({<<makeID(e[1], nodeType), makeID(e[2], nodeType)>> : e \in E}),
               weighted) :
        <<N, E>> \in {p \in ExpandNodes \X SUBSET ExpandEdges :
                         \A e \in p[2] : e[1] \in p[1] /\ e[2] \in p[1]}}

\* The collection is one set object: every iteration of it runs in the same
\* order (opt.order)
InitExpand ==
    /\ records \in ExpandCollections
    /\ \E directed, weighted \in BOOLEAN, nodeType \in {"full", "year"} :
          /\ \E order \in Orders(records) :
                opt = [builder |-> "expandRecs", nodeType |-> nodeType,
                       weighted |-> weighted, order |-> order]
          /\ grph \in ExpandGraphs(directed, nodeType, weighted)
    /\ todo = {}
    /\ AlgebraIdle

\* expandRecs(G, RecCollect, nodeType, weighted)
ExpandRecs ==
    /\ last.n < MaxOps
    /\ LET RecCollect == opt.order IN
          LET out == expandRecs(grph, RecCollect, opt.nodeType, opt.weighted)
          IN /\ grph' \in (IF out.exc = "none" THEN {out.G}
                           ELSE interrupted(out.G, out.at[1], out.at[2]))
             /\ last' = [kind |-> "expandRecs", n |-> last.n + 1,
                         exc |-> out.exc, pre |-> grph,
                         preExc |-> IF last.n = 0 THEN "none" ELSE last.exc]
    /\ UNCHANGED <<records, todo, opt, heap, sets, dicts>>

NextExpand == ExpandRecs

SpecExpand == InitExpand /\ [][NextExpand]_vars

number_of_nodes(G) == Cardinality(DOMAIN G.node)

number_of_edges(G) == Cardinality(DOMAIN G.edge)

\* C19: expandRecs is idempotent on the size of the graph: a run that follows
\* a completed run on the same collection, and completes itself, leaves the
\* number of nodes and the number of edges unchanged.
C19_ExpandIdempotentSize ==
    (last.kind = "expandRecs" /\ last.n >= 2
        /\ last.exc = "none" /\ last.preExc = "none") =>
        /\ number_of_nodes(grph) = number_of_nodes(last.pre)
        /\ number_of_edges(grph) = number_of_edges(last.pre)

----------------------------------------------------------------------------
(* RecordCollection.localCiteStats *)

keyTypesLst == <<"citation", "journal", "year", "author">>

\* citesDict = {}: a dict, with the order in which its keys were inserted
NewCitesDict == [keys |-> <<>>, cnt |-> EmptyF]

\* A tally that counts each key once
tallyOnce(citesDict, cVal) ==
    IF cVal \in DOMAIN citesDict.cnt THEN citesDict
    ELSE [keys |-> Append(citesDict.keys, cVal), cnt |-> Put(citesDict.cnt, cVal, 1)]

\* if cVal in citesDict: citesDict[cVal] += 1 else: citesDict[cVal] = 1
tally(citesDict, cVal) ==
    IF cVal \in DOMAIN citesDict.cnt THEN [citesDict EXCEPT !.cnt[cVal] = @ + 1]
    ELSE [keys |-> Append(citesDict.keys, cVal), cnt |-> Put(citesDict.cnt, cVal, 1)]

\* cVal = c, or getattr(c, keyType)
cValOf(c, keyType) == IF keyType = keyTypesLst[1] THEN c ELSE Citation[c][keyType]

\* cVal is None: the attribute is missing ("" in Citation)
cValIsNone(c, keyType) == keyType # keyTypesLst[1] /\ Citation[c][keyType] = ""

\* for c in rCites
RECURSIVE tallyCites(_, _, _)
tallyCites(citesDict, rCites, keyType) ==
    IF rCites = <<>> THEN citesDict
    ELSE tallyCites(IF cValIsNone(Head(rCites), keyType) THEN citesDict
                    ELSE tally(citesDict, cValOf(Head(rCites), keyType)),
                    Tail(rCites), keyType)

\* for R in self: rCites = R.get('citations'); if rCites: ...
RECURSIVE tallyRecords(_, _, _)
tallyRecords(citesDict, Rs, keyType) ==
    IF Rs = <<>> THEN citesDict
    ELSE tallyRecords(tallyCites(citesDict, Head(Rs).citations, keyType),
                      Tail(Rs), keyType)

\* localCiteStats(pandasFriendly, keyType) on a collection iterated as Rs
localCiteStats(Rs, pandasFriendly, keyType) ==
    IF keyType \notin Range(keyTypesLst) THEN [exc |-> "TypeError", ret |-> None]
    ELSE LET citesDict == tallyRecords(NewCitesDict, Rs, keyType)
         IN [exc |-> "none",
             ret |-> IF pandasFriendly
                     THEN [Citations |-> citesDict.keys,
                           Counts |-> [i \in 1..Len(citesDict.keys) |->
                                          citesDict.cnt[citesDict.keys[i]]]]
                     ELSE citesDict.cnt]

KeyTypes == Range(keyTypesLst) \cup {"volume"}

InitStats ==
    /\ records \in CoCiteCollections
    /\ \E keyType \in KeyTypes, pandasFriendly \in BOOLEAN :
          opt = [builder |-> "localCiteStats", keyType |-> keyType,
                 pandasFriendly |-> pandasFriendly]
    /\ todo = {}
    /\ grph = NewGraph(FALSE)
    /\ AlgebraIdle

LocalCiteStats ==
    /\ last.kind = "none"
    /\ \E Rs \in Orders(records) :
          LET out == localCiteStats(Rs, opt.pandasFriendly, opt.keyType)
          IN last' = [kind |-> "localCiteStats", n |-> 1, exc |-> out.exc,
                      ret |-> out.ret, order |-> Rs]
    /\ UNCHANGED <<records, todo, grph, opt, heap, sets, dicts>>

NextStats == LocalCiteStats

SpecStats == InitStats /\ [][NextStats]_vars

\* The table a result stands for: the dict itself, or the pairing of the two
\* lists of the pandas-friendly form
tableOf(ret) ==
    IF opt.pandasFriendly
    THEN [k \in Range(ret.Citations) |->
             ret.Counts[CHOOSE i \in 1..Len(ret.Citations) : ret.Citations[i] = k]]
    ELSE ret

\* The citation occurrences of the collection that carry the field keyType
carrying ==
    {p \in UNION {{<<R, i>> : i \in 1..Len(R.citations)} : R \in records} :
        Citation[p[1].citations[p[2]]][opt.keyType] # ""}

fieldOf(p) == Citation[p[1].citations[p[2]]][opt.keyType]

tableCount(v) == tableOf(last.ret)[v]

\* C20: with keyType journal, year or author the table returned maps each
\* value of the field to the number of citation occurrences carrying it, over
\* all Records; a citation without the field adds no entry and no count, the
\* counts sum to the number of occurrences having the field, and the table is
\* the same for every order of the Records.
C20_StatsCounts ==
    (last.kind = "localCiteStats" /\ opt.keyType \in {"journal", "year", "author"}) =>
        /\ last.exc = "none"
        /\ opt.pandasFriendly =>
              NoDup(last.ret.Citations) /\ Len(last.ret.Counts) = Len(last.ret.Citations)
        /\ DOMAIN tableOf(last.ret) = {fieldOf(p) : p \in carrying}
        /\ \A v \in DOMAIN tableOf(last.ret) :
              tableCount(v) = Cardinality({p \in carrying : fieldOf(p) = v})
        /\ SumOver(DOMAIN tableOf(last.ret), tableCount, 0) = Cardinality(carrying)
        /\ \A Rs \in Orders(records) :
              tableOf(localCiteStats(Rs, opt.pandasFriendly, opt.keyType).ret)
                  = tableOf(last.ret)

\* Two Records counted by year: a value met in both, and a citation without year
C20_Witness ==
    /\ last.kind = "localCiteStats"
    /\ opt.keyType = "year"
    /\ ~opt.pandasFriendly
    /\ Cardinality(records) = 2
    /\ \E R \in records : "cZ" \in Range(R.citations)
    /\ \A R \in records : "cX" \in Range(R.citations)
    /\ "2001" \in DOMAIN last.ret /\ last.ret["2001"] >= 2

----------------------------------------------------------------------------
(* networkx 1.x MultiGraph *)

\* nx.MultiGraph(): an edge is stored under <<{u, v}, key>>; the keys that
\* add_edge assigns are integers ([int |-> k]), a key asked for by the caller
\* may be a string ([str |-> s])
NewMultiGraph == [directed |-> FALSE, node |-> EmptyF, attr |-> <<>>, edge |-> EmptyF]

IntKey(k) == [int |-> k]
StrKey(str) == [str |-> str]

\* grph[u][v]: the keys of the edges between u and v
keydict(G, u, v) == {e[2] : e \in {x \in DOMAIN G.edge : x[1] = {u, v}}}

\* has_edge(u, v, key = key)
multi_has_edge(G, u, v, key) == <<{u, v}, key>> \in DOMAIN G.edge

\* add_edge(u, v, attr_dict = attrDict): key = len(keydict), a new parallel edge
multi_add_edge(G, u, v, attrDict) ==
    LET G1 == IF has_node(G, u) THEN G ELSE add_node(G, u, EmptyF)
        G2 == IF has_node(G1, v) THEN G1 ELSE add_node(G1, v, EmptyF)
        key == IntKey(Cardinality(keydict(G2, u, v)))
    IN [G2 EXCEPT !.edge = Put(@, <<{u, v}, key>>, attrDict)]

----------------------------------------------------------------------------
(* RecordCollection.oneModeNetwork *)

\* An argument that should be a tag: a str (v holds it), a list of str, or
\* something else
StrArg(t) == [type |-> "str", v |-> <<t>>]
ListArg(l) == [type |-> "list", v |-> l]
IntArg == [type |-> "int", v |-> <<>>]

\* R.get(tag)
tagValue(R, tag) ==
    IF tag = tag1 THEN R.t1 ELSE IF tag = tag2 THEN R.t2 ELSE TagNone

\* edgeVals = [str(v) for v in R.get(edgeAttribute, [])]
edgeValsOf(R, o) == IF o.edgeAttribute # "None" THEN tagValue(R, o.edgeAttribute).v ELSE <<>>

\* if isinstance(mode, list): contents = the values of its tags, one after
\* the other; else: contents = R.get(mode)
RECURSIVE modeListContents(_, _)
modeListContents(R, attrs) ==
    IF attrs = <<>> THEN <<>>
    ELSE tagValue(R, Head(attrs)).v \o modeListContents(R, Tail(attrs))

oneModeContents(R, mode) ==
    IF mode.type = "list" THEN TagList(modeListContents(R, mode.v))
    ELSE tagValue(R, mode.v[1])

\* for i, a in grph[node1][node2].items(): if a['key'] == edgeVal:
\*     grph[node1][node2][i]['weight'] += 1; break
oneModeBumpKeyed(G, node1, node2, edgeVal) ==
    LET hits == {k \in keydict(G, node1, node2) :
                    G.edge[<<{node1, node2}, k>>].key = edgeVal}
    IN IF hits = {} THEN G
       ELSE LET k == CHOOSE h \in hits : \A h2 \in hits : h.int <= h2.int
            IN [G EXCEPT !.edge[<<{node1, node2}, k>>] = Put(@, "weight", @.weight + 1)]

\* The body of `for edgeVal in edgeVals`
oneModeKeyedEdge(G, node1, node2, edgeVal, o) ==
    IF multi_has_edge(G, node1, node2, StrKey(edgeVal))
    THEN (IF o.edgeWeight THEN oneModeBumpKeyed(G, node1, node2, edgeVal) ELSE G)
    ELSE multi_add_edge(G, node1, node2,
                        IF o.edgeWeight THEN [key |-> edgeVal, weight |-> 1]
                        ELSE [key |-> edgeVal])

RECURSIVE oneModeKeyedEdges(_, _, _, _, _)
oneModeKeyedEdges(G, node1, node2, edgeVals, o) ==
    IF edgeVals = <<>> THEN G
    ELSE oneModeKeyedEdges(oneModeKeyedEdge(G, node1, node2, Head(edgeVals), o),
                           node1, node2, Tail(edgeVals), o)

\* The edge step for one (node1, node2)
oneModeEdge(G, node1, node2, edgeVals, o) ==
    IF o.edgeAttribute # "None" THEN oneModeKeyedEdges(G, node1, node2, edgeVals, o)
    ELSE IF o.edgeWeight THEN bumpEdge(G, node1, node2)
    ELSE IF ~has_edge(G, node1, node2) THEN add_edge(G, node1, node2, EmptyF)
    ELSE G

RECURSIVE oneModeEdges(_, _, _, _, _)
oneModeEdges(G, node1, rest, edgeVals, o) ==
    IF rest = <<>> THEN G
    ELSE oneModeEdges(oneModeEdge(G, node1, Head(rest), edgeVals, o),
                      node1, Tail(rest), edgeVals, o)

\* if not grph.has_node(node1): add_node(node1); if nodeCount: count += 1 or = 1
oneModeNode(G, node1, o) ==
    LET G1 == IF has_node(G, node1) THEN G ELSE add_node(G, node1, EmptyF)
    IN IF ~o.nodeCount THEN G1
       ELSE IF HasCount(G1, node1) THEN IncCount(G1, node1)
       ELSE SetNodeAttr(G1, node1, "count", 1)

\* for i, node1 in enumerate(tmplst): for node2 in tmplst[i + 1:]: ...
RECURSIVE oneModeLoop(_, _, _, _)
oneModeLoop(G, tmplst, edgeVals, o) ==
    IF tmplst = <<>> THEN G
    ELSE oneModeLoop(oneModeNode(oneModeEdges(G, Head(tmplst), Tail(tmplst), edgeVals, o),
                                 Head(tmplst), o),
                     Tail(tmplst), edgeVals, o)

\* The node of a Record with one value
oneModeSingle(G, nodeVal, o) ==
    IF o.nodeCount
    THEN (IF HasCount(G, nodeVal) THEN IncCount(G, nodeVal)
          ELSE add_node(G, nodeVal, [count |-> 1]))
    ELSE IF ~has_node(G, nodeVal) THEN add_node(G, nodeVal, EmptyF)
    ELSE G

\* The body of `for R in self` for one Record (nodeAttribute is None)
oneModeRecord(G, R, o) ==
    LET contents == oneModeContents(R, o.mode)
        tmplst == contentsOf(contents, o.stemmer)
    IN IF contents.kind = "none" THEN G
       ELSE IF contents.kind = "list"
       THEN (IF Len(tmplst) > 1 THEN oneModeLoop(G, tmplst, edgeValsOf(R, o), o)
             ELSE IF Len(tmplst) = 1 THEN oneModeSingle(G, tmplst[1], o)
             ELSE G)
       ELSE oneModeSingle(G, tmplst[1], o)

\* The Records of the model: the mode tag holds nothing, one value or a list,
\* the edge attribute tag nothing or a list
OneModeRecs ==
    {[t1 |-> a, t2 |-> b] :
        a \in {TagNone, TagScalar("en"), TagList(<<"en", "fr">>), TagList(<<"fr", "en">>),
               TagList(<<"en", "fr", "de">>)},
        b \in {TagNone, TagList(<<"J1">>), TagList(<<"J1", "J2">>), TagList(<<"J2">>)}}

OneModeCollections == {{}} \cup {Range(f) : f \in [1..MaxRecs -> OneModeRecs]}

oneModeDefaults ==
    [builder |-> "oneMode", mode |-> StrArg(tag1), nodeCount |-> TRUE,
     edgeWeight |-> TRUE, stemmer |-> "None", edgeAttribute |-> "None"]

OneModeOpts ==
    {oneModeDefaults,
     [oneModeDefaults EXCEPT !.nodeCount = FALSE],
     [oneModeDefaults EXCEPT !.edgeWeight = FALSE],
     [oneModeDefaults EXCEPT !.stemmer = "first"],
     [oneModeDefaults EXCEPT !.edgeAttribute = tag2],
     [oneModeDefaults EXCEPT !.edgeAttribute = tag2, !.edgeWeight = FALSE]}

\* if edgeAttribute is not None: grph = nx.MultiGraph() else: grph = nx.Graph()
oneModeGraph(o) == IF o.edgeAttribute # "None" THEN NewMultiGraph ELSE NewGraph(FALSE)

InitOneMode ==
    /\ records \in OneModeCollections
    /\ todo = records
    /\ opt \in OneModeOpts
    /\ grph = oneModeGraph(opt)
    /\ AlgebraIdle

oneModeFold ==
    /\ opt.builder = "oneMode"
    /\ \E R \in todo :
        /\ grph' = oneModeRecord(grph, R, opt)
        /\ todo' = todo \ {R}
    /\ UNCHANGED <<records, opt, heap, sets, dicts, last>>

NextOneMode == oneModeFold

SpecOneMode == InitOneMode /\ [][NextOneMode]_vars

\* The Records folded so far in which node1 and node2 co-occur (as two
\* entries of the mode tag's list) together with the edge value
coOccurWithKey(node1, node2, edgeVal) ==
    {R \in records \ todo :
        /\ \E i, j \in 1..Len(contentsOf(R.t1, opt.stemmer)) :
              /\ i # j
              /\ contentsOf(R.t1, opt.stemmer)[i] = node1
              /\ contentsOf(R.t1, opt.stemmer)[j] = node2
        /\ edgeVal \in Range(R.t2.v)}

\* The parallel edges between two nodes that bear the edge value
keyedEdges(node1, node2, edgeVal) ==
    {k \in keydict(grph, node1, node2) : grph.edge[<<{node1, node2}, k>>].key = edgeVal}

\* C26: in oneModeNetwork with an edgeAttribute tag and edgeWeight, for every
\* node pair and every value of the edge attribute there is at most one edge
\* bearing the value, and its weight is the number of folded Records in which
\* the pair co-occurs together with the value.
C26_KeyedEdgeWeight ==
    (opt.builder = "oneMode" /\ opt.edgeAttribute # "None" /\ opt.edgeWeight) =>
        \A node1, node2 \in DOMAIN grph.node : \A edgeVal \in {"J1", "J2"} :
            /\ Cardinality(keyedEdges(node1, node2, edgeVal)) <= 1
            /\ \A k \in keyedEdges(node1, node2, edgeVal) :
                  grph.edge[<<{node1, node2}, k>>].weight
                      = Cardinality(coOccurWithKey(node1, node2, edgeVal))

----------------------------------------------------------------------------
(* RecordCollection.nModeNetwork *)

\* contents: for each tag with a truthy value, the tag and its values as a list
RECURSIVE nModeContents(_, _, _)
nModeContents(R, tags, stemmer) ==
    IF tags = <<>> THEN <<>>
    ELSE LET tmpVal == tagValue(R, Head(tags).v[1])
         IN (IF tmpVal.v # <<>>
             THEN <<[t |-> Head(tags).v[1], vals |-> contentsOf(tmpVal, stemmer)]>>
             ELSE <<>>)
            \o nModeContents(R, Tail(tags), stemmer)

\* The values of the later tags, one list after the other
RECURSIVE laterValues(_)
laterValues(rest) ==
    IF rest = <<>> THEN <<>> ELSE Head(rest).vals \o laterValues(Tail(rest))

\* The edge step for one (node1, node2)
nModeEdge(G, node1, node2, o) ==
    IF o.edgeWeight THEN bumpEdge(G, node1, node2)
    ELSE IF ~has_edge(G, node1, node2) THEN add_edge(G, node1, node2, EmptyF)
    ELSE G

RECURSIVE nModeEdges(_, _, _, _)
nModeEdges(G, node1, nodes2, o) ==
    IF nodes2 = <<>> THEN G
    ELSE nModeEdges(nModeEdge(G, node1, Head(nodes2), o), node1, Tail(nodes2), o)

\* The node step for node1 of the tag t: the count, and the type
nModeNode(G, node1, t, o) ==
    IF o.nodeCount
    THEN IF HasCount(G, node1) THEN IncCount(G, node1)
         ELSE IF has_node(G, node1)
         THEN (LET G1 == SetNodeAttr(G, node1, "count", 1)
               IN IF o.recordType THEN SetNodeAttr(G1, node1, "type", t) ELSE G1)
         ELSE add_node(G, node1, IF o.recordType THEN [type |-> t] ELSE EmptyF)
    ELSE IF ~has_node(G, node1)
         THEN add_node(G, node1, IF o.recordType THEN [type |-> t] ELSE EmptyF)
         ELSE IF o.recordType
         THEN (IF "type" \in DOMAIN NodeAttr(G, node1)
               THEN SetNodeAttr(G, node1, "type", NodeAttr(G, node1).type \o t)
               ELSE SetNodeAttr(G, node1, "type", t))
         ELSE G

\* for node1 in vlst1[1]
RECURSIVE nModeNodes(_, _, _, _, _)
nModeNodes(G, nodes1, t, nodes2, o) ==
    IF nodes1 = <<>> THEN G
    ELSE nModeNodes(nModeNode(nModeEdges(G, Head(nodes1), nodes2, o), Head(nodes1), t, o),
                    Tail(nodes1), t, nodes2, o)

\* for i, vlst1 in enumerate(contents)
RECURSIVE nModeLoop(_, _, _)
nModeLoop(G, contents, o) ==
    IF contents = <<>> THEN G
    ELSE nModeLoop(nModeNodes(G, Head(contents).vals, Head(contents).t,
                              laterValues(Tail(contents)), o),
                   Tail(contents), o)

\* The body of `for R in self` for one Record
nModeRecord(G, R, o) == nModeLoop(G, nModeContents(R, o.tags, o.stemmer), o)

nModeDefaults ==
    [builder |-> "nMode", tags |-> <<StrArg(tag1), StrArg(tag2)>>, recordType |-> TRUE,
     nodeCount |-> TRUE, edgeWeight |-> TRUE, stemmer |-> "None"]

NModeOpts ==
    {nModeDefaults,
     [nModeDefaults EXCEPT !.recordType = FALSE],
     [nModeDefaults EXCEPT !.nodeCount = FALSE],
     [nModeDefaults EXCEPT !.edgeWeight = FALSE],
     [nModeDefaults EXCEPT !.stemmer = "first"]}

InitNMode ==
    /\ records \in TwoModeCollections
    /\ todo = records
    /\ opt \in NModeOpts
    /\ grph = NewGraph(FALSE)
    /\ AlgebraIdle

nModeFold ==
    /\ opt.builder = "nMode"
    /\ \E R \in todo :
        /\ grph' = nModeRecord(grph, R, opt)
        /\ todo' = todo \ {R}
    /\ UNCHANGED <<records, opt, heap, sets, dicts, last>>

NextNMode == nModeFold

SpecNMode == InitNMode /\ [][NextNMode]_vars

\* The tags under which a folded Record holds the value
producingTags(n) ==
    {t \in {a.v[1] : a \in Range(opt.tags)} :
        \E R \in records \ todo : n \in Range(contentsOf(tagValue(R, t), opt.stemmer))}

\* C27: in nModeNetwork with recordType, after folding any number of Records
\* every node's 'type' is a tag that produced the node, with nodeCount set or
\* not and however many Records contain the value.
C27_NModeType ==
    (opt.builder = "nMode" /\ opt.recordType) =>
        \A n \in DOMAIN grph.node :
            /\ "type" \in DOMAIN NodeAttr(grph, n)
            /\ NodeAttr(grph, n).type \in producingTags(n)

----------------------------------------------------------------------------
(* The argument checks at the head of the network builders *)

allowedTypes == <<"full", "original", "author", "journal", "year">>

\* isinstance(stemmer, collections.abc.Callable), for a stemmer that is not None
callable(stemmer) == stemmer = "first"

\* coCiteNetwork, citationNetwork: if nodeType not in allowedTypes: raise RCValueError
nodeTypeCheck(o) == IF o.nodeType \notin Range(allowedTypes) THEN "RCValueError" ELSE "none"

\* A stemmer check that lets every stemmer through
stemmerUnchecked(stemmer) == "none"

\* if stemmer is not None: if isinstance(stemmer, Callable): ... else: raise TypeError
stemmerCheck(stemmer) ==
    IF stemmer # "None" /\ ~callable(stemmer) THEN "TypeError" ELSE "none"

\* oneModeNetwork: if not isinstance(mode, str): raise TypeError; the stemmer
oneModeCheck(o) ==
    IF o.mode.type # "str" THEN "TypeError" ELSE stemmerCheck(o.stemmer)

\* twoModeNetwork: tag1, tag2, stemmerTag1, stemmerTag2 in this order
twoModeCheck(o) ==
    IF o.tag1Arg.type # "str" THEN "TypeError"
    ELSE IF o.tag2Arg.type # "str" THEN "TypeError"
    ELSE IF stemmerCheck(o.stemmerTag1) # "none" THEN stemmerCheck(o.stemmerTag1)
    ELSE stemmerCheck(o.stemmerTag2)

\* nModeNetwork: for t in (i for i in tags if not isinstance(i, str)): raise TypeError
nModeCheck(o) ==
    IF \E i \in 1..Len(o.tags) : o.tags[i].type # "str" THEN "TypeError"
    ELSE stemmerCheck(o.stemmer)

\* The calls of the model: a builder, its arguments (good and bad) and a
\* small collection
ArgCiteRecs == {[cite |-> "cX", citations |-> <<"cX", "cY">>],
                [cite |-> "cY", citations |-> <<"cX">>]}

ArgTagRecs == {[t1 |-> TagList(<<"en", "fr">>), t2 |-> TagList(<<"J1">>)],
               [t1 |-> TagScalar("en"), t2 |-> TagList(<<"J1", "J2">>)]}

ArgNodeTypes == Range(allowedTypes) \cup {"volume", "Full"}

ArgTags(t) == {StrArg(t), IntArg, ListArg(<<tag1, tag2>>)}

ArgStemmers == {"None", "first", "notCallable"}

ArgCalls ==
    {[records |-> ArgCiteRecs, opt |-> [citeDefaults(b, b = "citation") EXCEPT !.nodeType = nt]] :
        b \in {"coCite", "citation"}, nt \in ArgNodeTypes}
    \cup {[records |-> ArgTagRecs,
           opt |-> [oneModeDefaults EXCEPT !.mode = m, !.stemmer = st]] :
             m \in ArgTags(tag1), st \in ArgStemmers}
    \cup {[records |-> ArgTagRecs,
           opt |-> twoModeDefaults @@ [tag1Arg |-> a, tag2Arg |-> b]] :
             a \in ArgTags(tag1), b \in ArgTags(tag2)}
    \cup {[records |-> ArgTagRecs,
           opt |-> [twoModeDefaults EXCEPT !.stemmerTag1 = s1, !.stemmerTag2 = s2]
                    @@ [tag1Arg |-> StrArg(tag1), tag2Arg |-> StrArg(tag2)]] :
             s1 \in ArgStemmers, s2 \in ArgStemmers}
    \cup {[records |-> ArgTagRecs,
           opt |-> [nModeDefaults EXCEPT !.tags = <<a, b>>, !.stemmer = st]] :
             a \in {StrArg(tag1), IntArg}, b \in {StrArg(tag2), IntArg}, st \in ArgStemmers}

InitArgs ==
    /\ \E call \in ArgCalls : records = call.records /\ opt = call.opt
    /\ todo = {}
    /\ grph = NewGraph(FALSE)
    /\ AlgebraIdle

\* The head of a builder: the arguments are checked; when they pass, the
\* graph is made and the loop over the Records begins
Begin(builder, exc, G) ==
    /\ last.kind = "none"
    /\ opt.builder = builder
    /\ last' = [kind |-> builder, n |-> 1, exc |-> exc]
    /\ todo' = IF exc = "none" THEN records ELSE {}
    /\ grph' = IF exc = "none" THEN G ELSE grph
    /\ UNCHANGED <<records, opt, heap, sets, dicts>>

coCiteBegin == Begin("coCite", nodeTypeCheck(opt), NewGraph(FALSE))

citationBegin == Begin("citation", nodeTypeCheck(opt), NewGraph(opt.directed))

oneModeBegin == Begin("oneMode", oneModeCheck(opt), oneModeGraph(opt))

twoModeBegin == Begin("twoMode", twoModeCheck(opt), NewGraph(opt.directed))

nModeBegin == Begin("nMode", nModeCheck(opt), NewGraph(FALSE))

NextArgs ==
    \/ coCiteBegin \/ citationBegin \/ oneModeBegin \/ twoModeBegin \/ nModeBegin
    \/ coCiteFold \/ citationFold \/ oneModeFold \/ twoModeFold \/ nModeFold

SpecArgs == InitArgs /\ [][NextArgs]_vars

\* The error kinds of the contract
errorKind(exc) ==
    CASE exc \in {"RCValueError"} -> "InvalidArgument"
      [] exc \in {"TypeError", "RCTypeError"} -> "TypeMismatch"
      [] OTHER -> exc

\* C21: localCiteStats with a keyType outside citation, journal, year, author
\* fails with the InvalidArgument kind of error, the kind an unknown node mode
\* gets, and returns no table.
C21_StatsInvalidArgument ==
    (last.kind = "localCiteStats" /\ opt.keyType \notin {"citation", "journal", "year", "author"}) =>
        /\ errorKind(last.exc) = errorKind(nodeTypeCheck([nodeType |-> opt.keyType]))
        /\ errorKind(last.exc) = "InvalidArgument"
        /\ last.ret = None

badTag(arg) == arg.type # "str"

badStemmer(stemmer) == stemmer \notin {"None", "first"}

\* What the contract asks of a call that has begun
expectedKind ==
    CASE opt.builder \in {"coCite", "citation"} ->
            IF opt.nodeType \in {"full", "original", "author", "journal", "year"}
            THEN "none" ELSE "InvalidArgument"
      [] opt.builder = "oneMode" ->
            IF badTag(opt.mode) \/ badStemmer(opt.stemmer) THEN "TypeMismatch" ELSE "none"
      [] opt.builder = "twoMode" ->
            IF badTag(opt.tag1Arg) \/ badTag(opt.tag2Arg)
               \/ badStemmer(opt.stemmerTag1) \/ badStemmer(opt.stemmerTag2)
            THEN "TypeMismatch" ELSE "none"
      [] opt.builder = "nMode" ->
            IF (\E i \in 1..Len(opt.tags) : badTag(opt.tags[i])) \/ badStemmer(opt.stemmer)
            THEN "TypeMismatch" ELSE "none"

\* C22: the builders reject bad arguments before any Record is folded:
\* coCiteNetwork and citationNetwork raise RCValueError for a nodeType outside
\* full, original, author, journal, year; oneModeNetwork, twoModeNetwork and
\* nModeNetwork raise TypeError for a tag that is no string and for a stemmer
\* that is neither None nor callable; a rejected call folds nothing and makes
\* no graph, and good arguments are not rejected.
C22_RejectBeforeFold ==
    last.kind # "none" =>
        /\ errorKind(last.exc) = expectedKind
        /\ (opt.builder \in {"coCite", "citation"} /\ last.exc # "none") =>
              last.exc = "RCValueError"
        /\ (opt.builder \in {"oneMode", "twoMode", "nMode"} /\ last.exc # "none") =>
              last.exc = "TypeError"
        /\ last.exc # "none" => (todo = {} /\ grph = NewGraph(FALSE))

\* A twoModeNetwork call rejected for its second stemmer alone
C22_Witness ==
    /\ last.kind = "twoMode"
    /\ last.exc = "TypeError"
    /\ opt.stemmerTag1 = "first" /\ opt.stemmerTag2 = "notCallable"
    /\ todo = {}

\* The values a Record holds under the tags of a list
unionValues(R, tags) == UNION {Range(tagValue(R, tags[i]).v) : i \in 1..Len(tags)}

\* C30: oneModeNetwork given a list of tag names treats them as one field:
\* the call is accepted, and once the Records are folded the nodes are the
\* values of those tags in the Records and an edge joins every two different
\* values that co-occur in a Record.
C30_ModeList ==
    (last.kind = "oneMode" /\ opt.mode.type = "list" /\ opt.stemmer = "None") =>
        /\ last.exc = "none"
        /\ todo = {} =>
              /\ DOMAIN grph.node = UNION {unionValues(R, opt.mode.v) : R \in records}
              /\ \A R \in records : \A a, b \in unionValues(R, opt.mode.v) :
                    a # b => has_edge(grph, a, b)

----------------------------------------------------------------------------
(* coAuthNetwork: the count of an author *)

\* The folded Records that coAuthNetwork does not skip and that list the author
recordsOfAuthor(auth) ==
    {R \in folded : /\ ~(opt.dropNonJournals /\ ~R.isJournal)
                    /\ auth \in Range(R.authorsFull)}

\* C23: in coAuthNetwork with count, every author node's 'count' is the
\* number of folded Records whose author list contains the author, whatever
\* the author's position in the lists.
C23_CoAuthCount ==
    (opt.builder = "coAuth" /\ opt.count) =>
        \A auth \in DOMAIN grph.node :
            Count(grph, auth) = Cardinality(recordsOfAuthor(auth))

----------------------------------------------------------------------------
(* expandRecs: what a run does to the graph *)

\* The nodes with an edge from n to themselves
selfLoops(G) == {n \in DOMAIN G.node : has_edge(G, n, n)}

\* C29: expandRecs never adds a self-loop, neither for an identity that is
\* twice in a Record's list nor when the edges of the original node are copied
\* onto a duplicate: the self-loops after a run are those before it.
C29_NoSelfLoopAdded ==
    (last.kind = "expandRecs" /\ last.exc = "none") =>
        selfLoops(grph) \subseteq selfLoops(last.pre)

\* The identities of a Record's authors
idsOf(R) == Range(fullCiteListOf(R, opt.nodeType))

\* u and v are joined by an edge, in either direction
adjacent(G, u, v) == has_edge(G, u, v) \/ has_edge(G, v, u)

\* The nodes that have an edge with n
neighbours(G, n) == {m \in DOMAIN G.node : adjacent(G, n, m)}

\* The first completed run, on the graph last.pre
firstRun == last.kind = "expandRecs" /\ last.n = 1 /\ last.exc = "none"

\* The pairs (c1, c2): c1 an identity of a Record that was a node before the
\* run, c2 another identity of the same Record
expanded ==
    {p \in UNION {idsOf(R) \X idsOf(R) : R \in records} :
        p[1] # p[2] /\ has_node(last.pre, p[1])}

\* c2 is a duplicate made by the run
duplicate(c2) == has_node(grph, c2) /\ ~has_node(last.pre, c2)

\* C28: expandRecs re-links edges. For every Record with an author identity
\* c1 that was a node before the run, after the run each other author identity
\* c2 of the Record is a node; a c2 the run made carries c1's attributes, is
\* adjacent to c1 and to the other duplicates of the Record, and has an edge
\* with every node that had an edge with c1 before, in undirected and in
\* directed graphs; and when no identity of any Record was a node, the graph
\* is unchanged.
C28_ExpandRelinks ==
    firstRun =>
        /\ \A p \in expanded : has_node(grph, p[2])
        /\ \A p \in expanded : duplicate(p[2]) =>
              /\ NodeAttr(grph, p[2]) = NodeAttr(grph, p[1])
              /\ adjacent(grph, p[1], p[2])
              /\ \A n \in neighbours(last.pre, p[1]) : adjacent(grph, p[2], n)
        /\ \A p, q \in expanded :
              (p[1] = q[1] /\ p[2] # q[2] /\ duplicate(p[2]) /\ duplicate(q[2])
                  /\ \E R \in records : {p[1], p[2], q[2]} \subseteq idsOf(R)) =>
                  adjacent(grph, p[2], q[2])
        /\ (\A R \in records : \A c \in idsOf(R) : ~has_node(last.pre, c)) =>
              grph = last.pre

----------------------------------------------------------------------------
(* RecordCollection.localCitesOf *)

\* The argument rec: a Record, a str, a Citation or something else
RecordArg(id, cite) == [type |-> "Record", id |-> id, cite |-> cite]
IdArg(id) == [type |-> "str", id |-> id, cite |-> ""]
CitationArg(cite) == [type |-> "Citation", id |-> "", cite |-> cite]
OtherArg == [type |-> "int", id |-> "", cite |-> ""]

\* for R in self: ... if recCite == cite: localCites.append(R); break
\* and RecordCollection(inCollection = localCites, ...): a set of Records
citing(recs, recCite) == {R \in recs : recCite \in Range(R.citations)}

\* localCitesOf(rec) on the Records recs. The test for a Record (1509) is an
\* `if` of its own, so a Record goes on to the chain str / Citation / else
localCitesOf(recs, rec) ==
    IF rec.type = "str"
    THEN LET hits == {R \in recs : R.id = rec.id}
         IN IF hits = {}
            THEN [exc |-> "none", ret |-> [Records |-> {}, name |-> <<"Records_citing_", rec>>]]
            ELSE [exc |-> "none",
                  ret |-> [Records |-> citing(recs, (CHOOSE R \in hits : TRUE).cite),
                           name |-> <<"Records_citing_'", rec, "'">>]]
    ELSE IF rec.type = "Citation"
    THEN [exc |-> "none",
          ret |-> [Records |-> citing(recs, rec.cite),
                   name |-> <<"Records_citing_'", rec, "'">>]]
    ELSE [exc |-> "ValueError", ret |-> None]

\* The Records of the model: ids i1, i2, i3 with the citations X, Y, Z of
\* their own, each with one of the citation lists
LocalRec(i, l) ==
    [id |-> <<"i1", "i2", "i3">>[i], cite |-> <<"cX", "cY", "cZ">>[i], citations |-> l]

LocalCollections ==
    UNION {{{LocalRec(i, f[i]) : i \in I} : f \in [I -> CiteLists]} :
               I \in {J \in SUBSET (1..3) : Cardinality(J) <= MaxRecs}}

LocalArgs(recs) ==
    {RecordArg(R.id, R.cite) : R \in recs}
        \cup {RecordArg("i9", "cA"), IdArg("i1"), IdArg("i9"),
              CitationArg("cX"), CitationArg("cA"), OtherArg}

InitLocal ==
    /\ records \in LocalCollections
    /\ opt = [builder |-> "localCitesOf"]
    /\ todo = {}
    /\ grph = NewGraph(FALSE)
    /\ AlgebraIdle

LocalCitesOf ==
    /\ last.kind = "none"
    /\ \E rec \in LocalArgs(records) :
          LET out == localCitesOf(records, rec)
          IN last' = [kind |-> "localCitesOf", n |-> 1, exc |-> out.exc,
                      ret |-> out.ret, arg |-> rec]
    /\ UNCHANGED <<records, todo, grph, opt, heap, sets, dicts>>

NextLocal == LocalCitesOf

SpecLocal == InitLocal /\ [][NextLocal]_vars

\* C24: localCitesOf(rec) accepts a Record as rec: it does not fail, and it
\* returns the collection of exactly the members whose citation list holds a
\* citation equal to rec's own citation, each once.
C24_LocalCitesOfRecord ==
    (last.kind = "localCitesOf" /\ last.arg.type = "Record") =>
        /\ last.exc = "none"
        /\ last.ret.Records
              = {R \in records : \E i \in 1..Len(R.citations) : R.citations[i] = last.arg.cite}

----------------------------------------------------------------------------
(* RecordCollection.__init__ on a directory with cached = True; loadCache *)

\* The files a directory may hold and the extensions asked for
DirFiles == {"a.txt", "b.txt", "c.isi"}

Extensions == {"", ".txt"}

\* fullF.endswith(extension)
endswith(f, extension) == extension = "" \/ (extension = ".txt" /\ f \in {"a.txt", "b.txt"})

\* No cache file for an extension
NoCache == [exists |-> FALSE]

\* wosParser(fileName): the Records of a file as it is now
parseFile(env, fileName) == {[file |-> fileName, rev |-> env.mtime[fileName]]}

\* front(flist): flist after flist.pop()
front(flist) == SubSeq(flist, 1, Len(flist) - 1)

\* while len(flist) > 0: workingFile = flist.pop(); ... (flist is the
\* caller's list: what is popped is gone from it)
RECURSIVE popFiles(_, _, _, _)
popFiles(dat, flist, env, whole) ==
    IF flist = <<>> THEN [exc |-> "none", flist |-> flist]
    ELSE LET workingFile == flist[Len(flist)]
         IN IF workingFile \notin DOMAIN dat.fileDict
               \/ env.mtime[workingFile] # dat.fileDict[workingFile]
            THEN [exc |-> "File modification mismatch", flist |-> front(flist)]
            ELSE popFiles(dat, front(flist), env, whole)

\* loadCache(cacheFile, flist, rcName, fileExtensions, PBar): the error
\* raised ("none": RC is returned) and flist afterwards
loadCache(cache, flist, rcName, fileExtensions, env) ==
    IF cache.dat.version # env.version THEN [exc |-> "mk version mismatch", flist |-> flist]
    ELSE IF cache.dat.name # rcName THEN [exc |-> "Name mismatch", flist |-> flist]
    ELSE IF cache.dat.extension # fileExtensions
    THEN [exc |-> "Extension mismatch", flist |-> flist]
    ELSE IF Len(flist) # Cardinality(DOMAIN cache.dat.fileDict)
    THEN [exc |-> "File number mismatch", flist |-> flist]
    ELSE popFiles(cache.dat, flist, env, flist)

\* writeCache(RC, cacheFile, flist, rcName, fileExtensions, PBar)
writeCache(RC, flist, rcName, fileExtensions, env) ==
    [exists |-> TRUE,
     dat |-> [version |-> env.version, name |-> rcName, extension |-> fileExtensions,
              fileDict |-> [f \in Range(flist) |-> env.mtime[f]]],
     RC |-> RC]

\* for fileName in flist: ... self._Records |= recs
readFiles(env, flist) == UNION {parseFile(env, flist[i]) : i \in 1..Len(flist)}

\* The directories of the model: a.txt is there, b.txt may go, c.isi may come
InitDir ==
    /\ opt = [builder |-> "__init__", version |-> "v1", files |-> {"a.txt", "b.txt"},
              mtime |-> [f \in DirFiles |-> 0]]
    /\ dicts = [e \in Extensions |-> NoCache]
    /\ last = [kind |-> "none", n |-> 0]
    /\ records = {}
    /\ todo = {}
    /\ grph = NewGraph(FALSE)
    /\ heap = <<>>
    /\ sets = <<>>

\* RecordCollection(inCollection = <the directory>, name, extension, cached = True)
Construct ==
    /\ last.n < MaxOps
    /\ \E name \in {"", "n"}, extension \in Extensions :
       \E flist \in Orders({f \in opt.files : endswith(f, extension)}) :
          LET cache == dicts[extension]
              load == IF cache.exists THEN loadCache(cache, flist, name, extension, opt)
                      ELSE [exc |-> "no cache", flist |-> flist]
              Records == readFiles(opt, load.flist)
          IN IF load.exc = "none"
             THEN /\ records' = cache.RC
                  /\ dicts' = dicts
                  /\ last' = [kind |-> "__init__", n |-> last.n + 1, exc |-> "none",
                              cacheError |-> "none", listed |-> Range(flist),
                              read |-> {}, extension |-> extension, env |-> opt]
             ELSE /\ records' = Records
                  /\ dicts' = [dicts EXCEPT ![extension] =
                                  writeCache(Records, load.flist, name, extension, opt)]
                  /\ last' = [kind |-> "__init__", n |-> last.n + 1, exc |-> "none",
                              cacheError |-> load.exc, listed |-> Range(flist),
                              read |-> Range(load.flist), extension |-> extension, env |-> opt]
    /\ UNCHANGED <<todo, grph, opt, heap, sets>>

\* The world between two constructions: a file is modified, b.txt is
\* deleted, c.isi appears, metaknowledge is upgraded
Modify ==
    /\ \E f \in opt.files : opt.mtime[f] = 0 /\ opt' = [opt EXCEPT !.mtime[f] = 1]
    /\ UNCHANGED <<records, todo, grph, heap, sets, dicts, last>>

DeleteFile ==
    /\ "b.txt" \in opt.files /\ opt' = [opt EXCEPT !.files = @ \ {"b.txt"}]
    /\ UNCHANGED <<records, todo, grph, heap, sets, dicts, last>>

NewFile ==
    /\ "c.isi" \notin opt.files /\ opt' = [opt EXCEPT !.files = @ \cup {"c.isi"}]
    /\ UNCHANGED <<records, todo, grph, heap, sets, dicts, last>>

Upgrade ==
    /\ opt.version = "v1" /\ opt' = [opt EXCEPT !.version = "v2"]
    /\ UNCHANGED <<records, todo, grph, heap, sets, dicts, last>>

NextDir == Construct \/ Modify \/ DeleteFile \/ NewFile \/ Upgrade

SpecDir == InitDir /\ [][NextDir]_vars

\* The construction found a cache and the cache failed validation
cacheRejected ==
    last.kind = "__init__" /\ last.cacheError \notin {"none", "no cache"}

\* C25: when the cached load fails validation, for whichever reason, the
\* whole directory is analysed again: every file of the directory's file list
\* is parsed, its Records are in the collection, and it is recorded in the
\* cache written anew.
C25_FullRebuild ==
    cacheRejected =>
        /\ last.read = last.listed
        /\ records = UNION {parseFile(last.env, f) : f \in last.listed}
        /\ dicts[last.extension].exists
        /\ DOMAIN dicts[last.extension].dat.fileDict = last.listed

====
